---- MODULE Spec2Model ----
(***************************************************************************)
(* A model of the article-extraction engine of the Relief Society Magazine *)
(* preprocessing scripts (extract_vol36_40.py; extract_vol30_32.py holds   *)
(* the same engine).                                                       *)
(*                                                                         *)
(* Texts are sequences of symbols.  A symbol is either a single character  *)
(* ("k", "K", "q", "x", " ", "\n", "1", ".") or one of the multi-character *)
(* literals that the source's regular expressions look for (for instance   *)
(* "LESSON DEPARTMENT"), taken as one unit.  The letters k, q, v and x     *)
(* occur in none of these literals, so a title made of them matches no     *)
(* part of a literal.  Offsets and lengths count symbols and are 0-based   *)
(* as in Python; Slice(s, a, b) is s[a:b].                                 *)
(***************************************************************************)
EXTENDS Integers, Sequences, FiniteSets, TLC

VARIABLES
    pc,             \* position of the operation under study: "call", "done", ...
    text,           \* a text handed to the operation (issue text or slice)
    entries,        \* the TOC entries of the issue
    body,           \* body text (after the front matter, before the ads)
    body_offset,    \* offset of the body in the issue text
    body_end,       \* offset of the end of the body in the issue text
    found,          \* list of <<pos, entry>> handed to _boundaries_from_found
    boundaries,     \* list of <<start, end, entry>> it returns
    strict_found,   \* _match_entries_with_strategy(..., require_line_start=True)
    loose_found,    \* _match_entries_with_strategy(..., require_line_start=False)
    cleaned,        \* strip_running_noise: cleaned text of the latest call
    noise,          \* strip_running_noise: fragments removed by the latest call
    issue,          \* what extract_issue produced (a record), or <<>>
    dry_run,        \* the --dry-run flag
    files,          \* the files written so far: a set of <<<<dir, file>>, content>>
    dirs,           \* the directories created so far
    log,            \* the lines printed so far
    main,           \* main: its position, its locals and its environment, or <<>>
    san,            \* sanitize_filename: its arguments and its result, or <<>>
    api,            \* call_gpt: its position, its locals and the API's answers, or <<>>
    limiter,        \* a TokenRateLimiter used by a series of requests, or <<>>
    ocr             \* the OCR cleanup: progress.json and the runs of its main, or <<>>

\* the variables of main, sanitize_filename, call_gpt and the OCR cleanup
aux == <<main, san, api, limiter, ocr>>

vars == <<pc, text, entries, body, body_offset, body_end, found, boundaries,
          strict_found, loose_found, cleaned, noise, issue,
          dry_run, files, dirs, log, aux>>

(***************************************************************************)
(* Bounds of the model.                                                    *)
(***************************************************************************)
MaxFound == 3
MaxPos == 3
MaxBody == 5
MaxTitle == 3
MaxOffset == 1
MaxNoiseText == 5
MaxIssueBody == 4
MaxEntries == 2
MaxOrderBody == 4
MaxOrderEntries == 3
MaxHeaderBody == 5
MaxFilesBody == 4
MaxFilesEntries == 2
MaxIssues == 2
MaxSplitText == 5
MaxAdsBody == 4
MaxName == 5
MaxClip == 3
MaxNamesBody == 3
MaxRuns == 2
MaxRequests == 4
MaxClock == 500
MaxAlignPieces == 4

(***************************************************************************)
(* Symbols and character classes.                                          *)
(***************************************************************************)
NL == "\n"
SP == " "
Whitespace == {SP, NL}

\* the literals of the source's regular expressions, each one symbol
RSM == "RELIEF SOCIETY MAGAZINE"
LESSON_DEPARTMENT == "LESSON DEPARTMENT"
ENTERED == "Entered as second-class matter"
AUTHORIZED == "authorized June 29, 1918."
STAMPS == "Stamps should accompany manuscripts for their return"
MAGAZINE_CIRCULATION == "MAGAZINE CIRCULATION"
CONTENTS == "CONTENTS"
GENERAL_BOARD == "GENERAL BOARD"
PUBLISHED_MONTHLY == "PUBLISHED MONTHLY"
DESERET_NEWS_PRESS == "DESERET NEWS PRESS"
MORMON_HANDICRAFT == "MORMON HANDICRAFT"
PUBLISHED_BY_BOARD == "PUBLISHED MONTHLY BY THE GENERAL BOARD"
PAGE == "Page"

Digits == {"1"}
Months == {"JANUARY"}
NonWord == {SP, NL, "."}
Symbols == {"k", "K", "q", "Q", "v", "V", "x", "1", ".", SP, NL, "JANUARY", RSM,
            LESSON_DEPARTMENT, ENTERED, AUTHORIZED, STAMPS, MAGAZINE_CIRCULATION,
            CONTENTS, GENERAL_BOARD, PUBLISHED_MONTHLY, DESERET_NEWS_PRESS,
            MORMON_HANDICRAFT, PUBLISHED_BY_BOARD, PAGE}

\* len() of one symbol, in characters
SymbolLen(c) == CASE c = RSM -> 23
                  [] c = LESSON_DEPARTMENT -> 17
                  [] c = ENTERED -> 30
                  [] c = AUTHORIZED -> 25
                  [] c = STAMPS -> 52
                  [] c = MAGAZINE_CIRCULATION -> 20
                  [] c = CONTENTS -> 8
                  [] c = GENERAL_BOARD -> 13
                  [] c = PUBLISHED_MONTHLY -> 17
                  [] c = DESERET_NEWS_PRESS -> 18
                  [] c = MORMON_HANDICRAFT -> 17
                  [] c = PUBLISHED_BY_BOARD -> 38
                  [] c = PAGE -> 4
                  [] c = "JANUARY" -> 7
                  [] c = "--- STRIPPED NOISE ---" -> 22
                  [] c = "\n\n---\n\n" -> 7
                  [] OTHER -> 1

\* len() of a text, in characters
RECURSIVE CharLen(_)
CharLen(s) == IF s = <<>> THEN 0 ELSE SymbolLen(s[1]) + CharLen(Tail(s))

\* str.lower() on one symbol, as re.IGNORECASE compares characters
Fold(c) == CASE c = "K" -> "k"
             [] c = "Q" -> "q"
             [] c = "V" -> "v"
             [] OTHER -> c

Min(S) == CHOOSE x \in S : \A y \in S : x <= y
Max(S) == CHOOSE x \in S : \A y \in S : x >= y

\* all sequences over A of length at most n
SeqUpTo(A, n) == UNION {[1..k -> A] : k \in 0..n}

\* a list comprehension [f[1], ..., f[n]] as a tuple
List(f) == <<>> \o f

\* Python's s[a:b] for 0 <= a
Slice(s, a, b) == SubSeq(s, a + 1, IF b > Len(s) THEN Len(s) ELSE b)

\* str.strip(): whitespace removed at both ends
Strip(s) ==
    LET keep == {i \in 1..Len(s) : s[i] \notin Whitespace}
    IN IF keep = {} THEN <<>> ELSE SubSeq(s, Min(keep), Max(keep))

(***************************************************************************)
(* A backtracking matcher for the regular expressions the source builds.   *)
(* A pattern is a sequence of elements.  An element of kind "class" is a   *)
(* character class cls repeated lo..hi times, greedy or lazy; an element   *)
(* of kind "linestart" is the group (?:^|\n); an element of kind "ahead"   *)
(* is a lookahead (?=c1|c2|...|$) for the symbols of cls.  MatchEnd gives  *)
(* the end of the match re.match would report at position i, or Fail.      *)
(***************************************************************************)
Fail == 0 - 1
Unbounded == 1000000

Cls(cls, lo, hi, greedy) == [kind |-> "class", cls |-> cls, lo |-> lo, hi |-> hi, greedy |-> greedy]
LineStart == [kind |-> "linestart"]
AheadOrEnd(cls) == [kind |-> "ahead", cls |-> cls]

RECURSIVE RunLen(_, _, _, _)
RunLen(cls, s, i, hi) ==
    IF hi = 0 \/ i >= Len(s) \/ s[i + 1] \notin cls THEN 0
    ELSE 1 + RunLen(cls, s, i + 1, hi - 1)

RECURSIVE MatchEnd(_, _, _, _)
RECURSIVE TryCount(_, _, _, _, _, _)
\* element k repeated n times, then the rest of the pattern; on failure the
\* next count in the element's order of preference, down (or up) to last
TryCount(pat, k, s, i, n, last) ==
    LET e == MatchEnd(pat, k + 1, s, i + n)
    IN IF e # Fail THEN e
       ELSE IF n = last THEN Fail
       ELSE TryCount(pat, k, s, i, IF n > last THEN n - 1 ELSE n + 1, last)

MatchEnd(pat, k, s, i) ==
    IF k > Len(pat) THEN i
    ELSE IF pat[k].kind = "linestart"
    THEN LET caret == IF i = 0 THEN MatchEnd(pat, k + 1, s, i) ELSE Fail
         IN IF caret # Fail THEN caret
            ELSE IF i < Len(s) /\ s[i + 1] = NL THEN MatchEnd(pat, k + 1, s, i + 1)
            ELSE Fail
    ELSE IF pat[k].kind = "ahead"
    THEN IF \/ i < Len(s) /\ s[i + 1] \in pat[k].cls
            \/ i = Len(s)
            \/ i = Len(s) - 1 /\ s[Len(s)] = NL
         THEN MatchEnd(pat, k + 1, s, i)
         ELSE Fail
    ELSE LET el == pat[k]
             r == RunLen(el.cls, s, i, el.hi)
         IN IF r < el.lo THEN Fail
            ELSE IF el.greedy THEN TryCount(pat, k, s, i, r, el.lo)
            ELSE TryCount(pat, k, s, i, el.lo, r)

NoMatch == [start |-> Fail, end |-> Fail]

\* faulty variant: the rightmost match at or after from
SearchLast(pat, s, from) ==
    LET hits == {i \in from..Len(s) : MatchEnd(pat, 1, s, i) # Fail}
    IN IF hits = {} THEN NoMatch
       ELSE LET last == CHOOSE i \in hits : \A h \in hits : h <= i
            IN [start |-> last, end |-> MatchEnd(pat, 1, s, last)]

\* pattern.search(s, from): the leftmost match at or after from
RECURSIVE Search(_, _, _)
Search(pat, s, from) ==
    LET e == MatchEnd(pat, 1, s, from)
    IN IF e # Fail THEN [start |-> from, end |-> e]
       ELSE IF from >= Len(s) THEN NoMatch
       ELSE Search(pat, s, from + 1)

(***************************************************************************)
(* Title Matcher.                                                          *)
(***************************************************************************)
\* re.escape(c) under re.IGNORECASE: the characters equal to c up to case
Literal(c) == Cls({d \in Symbols : Fold(d) = Fold(c)}, 1, 1, TRUE)

\* faulty variant: the spaces of the title are relaxed only in the strict pattern
build_regex_spaces_strict_only(title, require_line_start) ==
    LET escaped == List([j \in 1..Len(title) |->
                       IF title[j] = SP /\ require_line_start
                       THEN Cls(Whitespace, 1, Unbounded, TRUE)
                       ELSE Literal(title[j])])
    IN IF require_line_start
       THEN <<LineStart, Cls(Whitespace, 0, Unbounded, TRUE)>> \o escaped
       ELSE escaped

build_regex_for_title(title, require_line_start) ==
    LET escaped == List([j \in 1..Len(title) |->
                       IF title[j] = SP THEN Cls(Whitespace, 1, Unbounded, TRUE)
                       ELSE Literal(title[j])])
    IN IF require_line_start
       THEN <<LineStart, Cls(Whitespace, 0, Unbounded, TRUE)>> \o escaped
       ELSE escaped

\* title.split()[0]
FirstWord(title) ==
    LET i == Min({j \in 1..Len(title) : title[j] \notin Whitespace})
        stops == {j \in i..Len(title) : title[j] \in Whitespace}
    IN SubSeq(title, i, IF stops = {} THEN Len(title) ELSE Min(stops) - 1)

\* faulty variant: the strict offset is left at the start of the whole match
MatchPositionUnadjusted(b, title, require_line_start) ==
    Search(build_regex_for_title(title, require_line_start), b, 0).start

\* the offset of one entry under one strategy (relative to the body), or Fail
MatchPosition(b, title, require_line_start) ==
    LET match == Search(build_regex_for_title(title, require_line_start), b, 0)
    IN IF match.start = Fail THEN Fail
       ELSE IF require_line_start
       THEN LET matched_text == Slice(b, match.start, match.end)
                first_word == FirstWord(title)
                title_in_match ==
                    Search(List([j \in 1..Len(first_word) |-> Literal(first_word[j])]),
                           matched_text, 0)
            IN IF title_in_match.start # Fail
               THEN match.start + title_in_match.start
               ELSE match.start
       ELSE match.start

\* faulty variant: the N-th entry of a title is matched to the N-th occurrence
RECURSIVE match_entries_nth_occurrence(_, _, _, _)
match_entries_nth_occurrence(b, es, offset, require_line_start) ==
    IF es = <<>> THEN <<>>
    ELSE LET entry == es[Len(es)]
             rest == match_entries_nth_occurrence(b, SubSeq(es, 1, Len(es) - 1),
                                                  offset, require_line_start)
             earlier == Cardinality({j \in 1..Len(es) - 1 : es[j].title = entry.title})
             first == MatchPosition(b, entry.title, require_line_start)
             hits == {first} \cup
                     {i \in 0..Len(b) :
                        MatchPosition(Slice(b, i, Len(b)), entry.title, require_line_start) = 0
                        /\ (require_line_start => (i = 0 \/ b[i] = NL))}
             nth == {i \in hits : Cardinality({h \in hits : h < i}) = earlier}
         IN IF first = Fail \/ nth = {} THEN rest
            ELSE Append(rest, <<(CHOOSE i \in nth : TRUE) + offset, entry>>)

\* faulty variant: an entry whose title is not found is reported at the
\* start of the body
RECURSIVE match_entries_unfound_at_start(_, _, _, _)
match_entries_unfound_at_start(b, es, offset, require_line_start) ==
    IF es = <<>> THEN <<>>
    ELSE LET entry == es[Len(es)]
             rest == match_entries_unfound_at_start(b, SubSeq(es, 1, Len(es) - 1),
                                                    offset, require_line_start)
             pos == MatchPosition(b, entry.title, require_line_start)
         IN Append(rest, <<(IF pos = Fail THEN 0 ELSE pos) + offset, entry>>)

RECURSIVE match_entries_with_strategy(_, _, _, _)
match_entries_with_strategy(b, es, offset, require_line_start) ==
    IF es = <<>> THEN <<>>
    ELSE LET entry == es[Len(es)]
             rest == match_entries_with_strategy(b, SubSeq(es, 1, Len(es) - 1),
                                                 offset, require_line_start)
             pos == MatchPosition(b, entry.title, require_line_start)
         IN IF pos = Fail THEN rest ELSE Append(rest, <<pos + offset, entry>>)

(***************************************************************************)
(* Noise Stripper.                                                         *)
(***************************************************************************)
Star(cls) == Cls(cls, 0, Unbounded, TRUE)
One(c) == Cls({c}, 1, 1, TRUE)

header_pat == <<Star(Digits), Star(Whitespace), One(RSM), Star(Whitespace),
                Star(NonWord), Star(Whitespace), Cls(Months, 0, 1, TRUE),
                Star(Whitespace), Cls(Digits, 0, 4, TRUE)>>
lesson_dept_pat == <<One(NL), Star(Whitespace), One(LESSON_DEPARTMENT),
                     Star(Whitespace), One(NL)>>
mailing_pat == <<One(ENTERED), Cls(Symbols, 0, Unbounded, FALSE), One(AUTHORIZED)>>
stamps_pat == <<One(STAMPS), Cls({"."}, 0, 1, TRUE)>>
blank_lines_pat == <<Cls({NL}, 3, Unbounded, TRUE)>>

\* pattern.finditer(s): the non-overlapping matches from position from on,
\* left to right (no pattern of the source matches the empty string)
RECURSIVE FindIter(_, _, _)
FindIter(pat, s, from) ==
    LET m == Search(pat, s, from)
    IN IF m.start = Fail \/ m.end = m.start THEN <<>>
       ELSE <<m>> \o FindIter(pat, s, m.end)

\* [m.group().strip() for m in pattern.finditer(s)]
Fragments(pat, s) ==
    LET ms == FindIter(pat, s, 0)
    IN List([j \in 1..Len(ms) |-> Strip(Slice(s, ms[j].start, ms[j].end))])

\* pattern.sub(repl, s)
RECURSIVE SubFrom(_, _, _, _)
SubFrom(pat, repl, s, from) ==
    LET m == Search(pat, s, from)
    IN IF m.start = Fail \/ m.end = m.start THEN Slice(s, from, Len(s))
       ELSE Slice(s, from, m.start) \o repl \o SubFrom(pat, repl, s, m.end)

Sub(pat, repl, s) == SubFrom(pat, repl, s, 0)

\* returns <<cleaned_text, list_of_stripped_fragments>>
strip_running_noise(t) ==
    LET t1 == Sub(header_pat, <<>>, t)
        t2 == Sub(lesson_dept_pat, <<NL>>, t1)
        t3 == Sub(mailing_pat, <<>>, t2)
        t4 == Sub(stamps_pat, <<>>, t3)
    IN <<Sub(blank_lines_pat, <<NL, NL>>, t4),
         Fragments(header_pat, t) \o Fragments(lesson_dept_pat, t1)
            \o Fragments(mailing_pat, t2) \o Fragments(stamps_pat, t3)>>

(***************************************************************************)
(* Boundary Resolver.                                                      *)
(***************************************************************************)
\* faulty variant: the matches are left in TOC order
Unsorted(f) == f

\* sorted(found, key=lambda x: x[0]): a stable sort by position
RECURSIVE SortedByPos(_)
SortedByPos(f) ==
    IF f = <<>> THEN <<>>
    ELSE LET init == SortedByPos(SubSeq(f, 1, Len(f) - 1))
             x == f[Len(f)]
             k == Cardinality({j \in 1..Len(init) : init[j][1] <= x[1]})
         IN SubSeq(init, 1, k) \o <<x>> \o SubSeq(init, k + 1, Len(init))

boundaries_from_found(f, end_of_body) ==
    LET found_sorted == SortedByPos(f)
    IN List([i \in 1..Len(found_sorted) |->
           <<found_sorted[i][1],
             IF i + 1 <= Len(found_sorted) THEN found_sorted[i + 1][1] ELSE end_of_body,
             found_sorted[i][2]>>])

(***************************************************************************)
(* Front-Matter Splitter, Ad-Section Finder, TOC extraction.               *)
(***************************************************************************)
\* faulty variant: the front matter ends with the marker itself
split_front_matter_marker_only(t) ==
    LET marker == Search(<<One(MAGAZINE_CIRCULATION)>>, t, 0)
    IN IF marker.start # Fail
       THEN <<Slice(t, 0, marker.end), Slice(t, marker.end, Len(t))>>
       ELSE <<<<>>, t>>

\* returns <<front_matter, body>>
split_front_matter(t) ==
    LET marker == Search(<<One(MAGAZINE_CIRCULATION), Star(Symbols \ {NL})>>, t, 0)
    IN IF marker.start # Fail
       THEN <<Slice(t, 0, marker.end), Slice(t, marker.end, Len(t))>>
       ELSE <<<<>>, t>>

(***************************************************************************)
(* extract_vol36.py: its own split_front_matter, which works on lines, and *)
(* its own _match_entries_with_strategy.                                   *)
(***************************************************************************)
\* str.split('\n')
RECURSIVE SplitLines(_)
SplitLines(t) ==
    LET newlines == {i \in 1..Len(t) : t[i] = NL}
    IN IF newlines = {} THEN <<t>>
       ELSE <<SubSeq(t, 1, Min(newlines) - 1)>>
                \o SplitLines(SubSeq(t, Min(newlines) + 1, Len(t)))

\* '\n'.join(lines)
RECURSIVE JoinLines(_)
JoinLines(lines) ==
    IF lines = <<>> THEN <<>>
    ELSE IF Len(lines) = 1 THEN lines[1]
    ELSE lines[1] \o <<NL>> \o JoinLines(Tail(lines))

\* the symbols that begin with one of [A-Z]
UpperInitial == {"K", "Q", "V", "JANUARY", RSM, LESSON_DEPARTMENT, ENTERED, STAMPS,
                 MAGAZINE_CIRCULATION, CONTENTS, GENERAL_BOARD, PUBLISHED_MONTHLY,
                 DESERET_NEWS_PRESS, MORMON_HANDICRAFT, PUBLISHED_BY_BOARD, PAGE}

\* r'^Page\s+\d+\s+[A-Z]'
page_pat == <<One(PAGE), Cls(Whitespace, 1, Unbounded, TRUE), Cls(Digits, 1, Unbounded, TRUE),
              Cls(Whitespace, 1, Unbounded, TRUE), Cls(UpperInitial, 1, 1, TRUE)>>

\* the line numbers (from 0) after which the fallback looks for a page line
PageLinesAfter == 5

\* split_front_matter of extract_vol36.py; returns <<front_matter, body>>
split_front_matter_vol36(t) ==
    LET lines == SplitLines(t)
        marked == {i \in 0..(Len(lines) - 1) :
                      \E j \in 1..Len(lines[i + 1]) : lines[i + 1][j] = PUBLISHED_BY_BOARD}
        paged == {i \in 0..(Len(lines) - 1) :
                     i > PageLinesAfter /\ MatchEnd(page_pat, 1, lines[i + 1], 0) # Fail}
        primary == IF marked = {} THEN Len(lines) ELSE Min({Min(marked) + 2, Len(lines)})
        split_point == IF primary = Len(lines) /\ paged # {} THEN Min(paged) ELSE primary
    IN <<JoinLines(SubSeq(lines, 1, split_point)),
         JoinLines(SubSeq(lines, split_point + 1, Len(lines)))>>

\* find_ads_section of extract_vol36.py on a body that holds none of its
\* four markers: <<body, ads_text, ads_start>>
find_ads_section_vol36(b, offset) == <<b, <<>>, offset + Len(b)>>

\* build_regex_for_title of extract_vol36.py for a title without backslash:
\* the escaped title under re.IGNORECASE; '^' under re.MULTILINE is checked
\* by the search below
build_regex_vol36(title) == List([j \in 1..Len(title) |-> Literal(title[j])])

\* _match_entries_with_strategy of extract_vol36.py: match.start() of the
\* first match, which holds no newline before the title
RECURSIVE match_entries_vol36(_, _, _, _)
match_entries_vol36(b, es, offset, require_line_start) ==
    IF es = <<>> THEN <<>>
    ELSE LET entry == es[Len(es)]
             rest == match_entries_vol36(b, SubSeq(es, 1, Len(es) - 1), offset, require_line_start)
             hits == {i \in 0..(Len(b) - 1) :
                         /\ MatchEnd(build_regex_vol36(entry.title), 1, b, i) # Fail
                         /\ require_line_start => (i = 0 \/ b[i] = NL)}
         IN IF hits = {} THEN rest ELSE Append(rest, <<Min(hits) + offset, entry>>)

\* two of the seven markers; the texts of the model hold no other marker
ad_markers == {<<One(DESERET_NEWS_PRESS)>>, <<One(MORMON_HANDICRAFT)>>}
AdWalkBack == 500

\* faulty variant: body.find('\n\n', 0, limit), the first blank line
FindBlankLine(b, limit) ==
    LET at == {i \in 0..limit - 2 : b[i + 1] = NL /\ b[i + 2] = NL}
    IN IF at = {} THEN Fail ELSE Min(at)

\* body.rfind('\n\n', 0, limit)
RFindBlankLine(b, limit) ==
    LET at == {i \in 0..limit - 2 : b[i + 1] = NL /\ b[i + 2] = NL}
    IN IF at = {} THEN Fail ELSE Max(at)

\* int(n * 0.7) in double arithmetic, for n < 1200: the product falls just
\* below the integer 7n/10 at the lengths listed
SevenTenthsRoundedDown == {90, 170, 180, 330, 340, 350, 360, 650, 660, 670, 680, 690, 700,
                           710, 720, 730}
IntSevenTenths(n) ==
    IF n \in SevenTenthsRoundedDown THEN (n * 7) \div 10 - 1 ELSE (n * 7) \div 10

\* returns <<body_without_ads, ads_text, ads_start_in_full_text>>; the search
\* region body[search_start:] is cut by characters, so it begins at the first
\* symbol that starts at or after character search_start (a literal cut in
\* two matches no marker)
find_ads_section(b, offset) ==
    LET search_start == IntSevenTenths(CharLen(b))
        region_start == Min({i \in 0..Len(b) : CharLen(Slice(b, 0, i)) >= search_start})
        search_region == Slice(b, region_start, Len(b))
        hits == {region_start + Search(marker, search_region, 0).start :
                    marker \in {mk \in ad_markers : Search(mk, search_region, 0).start # Fail}}
    IN IF hits = {} THEN <<b, <<>>, offset + Len(b)>>
       ELSE LET marker_pos == Min(hits)
                newline_pos == RFindBlankLine(b, marker_pos)
                earliest_pos ==
                    IF /\ newline_pos # Fail
                       /\ CharLen(Slice(b, newline_pos, marker_pos)) < AdWalkBack
                    THEN newline_pos ELSE marker_pos
            IN <<Slice(b, 0, earliest_pos), Strip(Slice(b, earliest_pos, Len(b))),
                 offset + earliest_pos>>

toc_pat == <<One(CONTENTS), Cls(Symbols, 0, Unbounded, FALSE),
             AheadOrEnd({GENERAL_BOARD, PUBLISHED_MONTHLY, MAGAZINE_CIRCULATION})>>

\* returns <<toc_text, remaining_front_matter>>
extract_toc_from_front_matter(front_matter) ==
    LET toc_match == Search(toc_pat, front_matter, 0)
    IN IF toc_match.start # Fail
       THEN <<Strip(Slice(front_matter, toc_match.start, toc_match.end)),
              Strip(Slice(front_matter, 0, toc_match.start)
                    \o Slice(front_matter, toc_match.end, Len(front_matter)))>>
       ELSE <<<<>>, front_matter>>

(***************************************************************************)
(* Issue Extractor.                                                        *)
(***************************************************************************)
RECURSIVE Flatten(_)
Flatten(ss) == IF ss = <<>> THEN <<>> ELSE ss[1] \o Flatten(Tail(ss))

TitlesOf(bounds) == {bounds[i][3].title : i \in 1..Len(bounds)}

\* a faulty variant: the earliest triple of a title is kept
ByTitleFirst(bounds) ==
    [t \in TitlesOf(bounds) |->
        LET k == Min({i \in 1..Len(bounds) : bounds[i][3].title = t})
        IN <<bounds[k][1], bounds[k][2]>>]

\* {e["title"]: (s, nd) for s, nd, e in bounds}: a later triple replaces an
\* earlier one of the same title
ByTitle(bounds) ==
    [t \in TitlesOf(bounds) |->
        LET k == Max({i \in 1..Len(bounds) : bounds[i][3].title = t})
        IN <<bounds[k][1], bounds[k][2]>>]

\* a faulty variant: the earliest entry of a title is kept
EntryByTitleFirst(es) ==
    [t \in {es[i].title : i \in 1..Len(es)} |->
        es[Min({i \in 1..Len(es) : es[i].title = t})]]

\* {e["title"]: e for e in entries}
EntryByTitle(es) ==
    [t \in {es[i].title : i \in 1..Len(es)} |->
        es[Max({i \in 1..Len(es) : es[i].title = t})]]

\* the titles of ordering, then each title of loose_bounds not yet listed
RECURSIVE AddLooseOnly(_, _)
AddLooseOnly(title_order, loose_bounds) ==
    IF loose_bounds = <<>> THEN title_order
    ELSE LET t == loose_bounds[1][3].title
         IN AddLooseOnly(IF \E i \in 1..Len(title_order) : title_order[i] = t
                         THEN title_order ELSE Append(title_order, t),
                         Tail(loose_bounds))

\* faulty variant: the loose order is the base ordering even when strict matched
TitleOrderLooseBase(strict_bounds, loose_bounds) ==
    List([i \in 1..Len(loose_bounds) |-> loose_bounds[i][3].title])

TitleOrder(strict_bounds, loose_bounds) ==
    LET ordering == IF strict_bounds # <<>> THEN strict_bounds ELSE loose_bounds
    IN AddLooseOnly(List([i \in 1..Len(ordering) |-> ordering[i][3].title]), loose_bounds)

(***************************************************************************)
(* sanitize_filename, on strings of single characters.                     *)
(***************************************************************************)
\* [<>:"/\\|?*] and [\s\-,;.!'()]
Reserved == {"<", ">", ":", "\"", "/", "\\", "|", "?", "*"}
Separators == Whitespace \cup {"-", ",", ";", ".", "!", "'", "(", ")"}

\* re.sub(r'[<>:"/\\|?*]', '', s)
RemoveReserved(s) == SelectSeq(s, LAMBDA c : c \notin Reserved)

\* re.sub(cls+, '_', s): every maximal run of characters of cls becomes one
\* underscore
RECURSIVE ReplaceRuns(_, _)
ReplaceRuns(s, cls) ==
    IF s = <<>> THEN <<>>
    ELSE IF s[1] \in cls
    THEN IF Len(s) >= 2 /\ s[2] \in cls THEN ReplaceRuns(Tail(s), cls)
         ELSE <<"_">> \o ReplaceRuns(Tail(s), cls)
    ELSE <<s[1]>> \o ReplaceRuns(Tail(s), cls)

\* str.rstrip('_') and str.strip('_')
RECURSIVE RStripUnderscores(_)
RStripUnderscores(s) ==
    IF s # <<>> /\ s[Len(s)] = "_" THEN RStripUnderscores(SubSeq(s, 1, Len(s) - 1)) ELSE s
RECURSIVE LStripUnderscores(_)
LStripUnderscores(s) ==
    IF s # <<>> /\ s[1] = "_" THEN LStripUnderscores(Tail(s)) ELSE s

\* faulty variant: the clipped name keeps a trailing underscore
ClipOnly(s, max_len) ==
    IF Len(s) > max_len THEN Slice(s, 0, max_len) ELSE s

\* s[:max_len].rstrip('_') when len(s) > max_len
Clip(s, max_len) ==
    IF Len(s) > max_len THEN RStripUnderscores(Slice(s, 0, max_len)) ELSE s

\* the name before it is clipped
Unclipped(s) ==
    LStripUnderscores(RStripUnderscores(
        ReplaceRuns(ReplaceRuns(RemoveReserved(Strip(s)), Separators), {"_"})))

sanitize_filename(s, max_len) == Clip(Unclipped(s), max_len)

\* the default max_len of sanitize_filename
NameLen == 80

\* f"{idx:02d}"
DecimalDigits == <<"0", "1", "2", "3", "4", "5", "6", "7", "8", "9">>
RECURSIVE Decimal(_)
Decimal(n) == IF n < 10 THEN <<DecimalDigits[n + 1]>>
              ELSE Decimal(n \div 10) \o <<DecimalDigits[(n % 10) + 1]>>
TwoDigits(idx) == IF idx < 10 THEN <<"0">> \o Decimal(idx) ELSE Decimal(idx)

\* a faulty variant: the file name lacks the number of the entry
FileNameUnnumbered(idx, strategy, title) ==
    <<strategy, "_">> \o sanitize_filename(title, NameLen) \o <<".txt">>

\* f"{idx:02d}_{strategy}_{title_safe}.txt", as a string whose symbols are
\* single characters, the strategy and the extension
FileName(idx, strategy, title) ==
    TwoDigits(idx) \o <<"_", strategy, "_">> \o sanitize_filename(title, NameLen) \o <<".txt">>

NoResult == [matched |-> FALSE]

\* the strict_result / loose_result of one title; noise_frags is what
\* strip_running_noise reported for it
StrategyResult(t, idx, title, by_title, strategy) ==
    IF title \in DOMAIN by_title
    THEN LET start == by_title[title][1]
             end == by_title[title][2]
             raw_text == Strip(Slice(t, start, end))
             stripped == strip_running_noise(raw_text)
         IN [matched |-> TRUE,
             file |-> FileName(idx, strategy, title),
             position |-> start,
             end |-> end,
             length |-> Len(raw_text),
             content |-> Strip(stripped[1]),
             noise_frags |-> stripped[2]]
    ELSE NoResult

\* faulty variant: the contents are not compared
IdenticalWhenBothMatched(strict_result, loose_result) ==
    strict_result.matched /\ loose_result.matched

\* strict_loose_identical
Identical(strict_result, loose_result) ==
    IF strict_result.matched /\ loose_result.matched
    THEN strict_result.content = loose_result.content
    ELSE FALSE

\* what one iteration of the loop over title_order adds to all_noise
NoiseOf(strict_result, loose_result) ==
    (IF strict_result.matched THEN strict_result.noise_frags ELSE <<>>)
    \o (IF loose_result.matched /\ ~strict_result.matched
        THEN loose_result.noise_frags ELSE <<>>)

\* what one iteration adds to covered_intervals
CoveredOf(strict_result, loose_result) ==
    (IF strict_result.matched
     THEN <<<<strict_result.position, strict_result.end>>>> ELSE <<>>)
    \o (IF loose_result.matched
        THEN <<<<loose_result.position, loose_result.end>>>> ELSE <<>>)

\* sorted(set(covered_intervals))
RECURSIVE SortedSet(_)
SortedSet(S) ==
    IF S = {} THEN <<>>
    ELSE LET m == CHOOSE x \in S : \A y \in S :
                     x[1] < y[1] \/ (x[1] = y[1] /\ x[2] <= y[2])
         IN <<m>> \o SortedSet(S \ {m})

\* faulty variant: the text after the last interval is not collected
RECURSIVE GapsWithoutTail(_, _, _)
GapsWithoutTail(all_intervals, cursor, end_of_body) ==
    IF all_intervals = <<>> THEN <<>>
    ELSE LET iv_start == all_intervals[1][1]
             iv_end == all_intervals[1][2]
         IN (IF cursor < iv_start THEN <<<<cursor, iv_start>>>> ELSE <<>>)
            \o GapsWithoutTail(Tail(all_intervals),
                               IF cursor > iv_end THEN cursor ELSE iv_end, end_of_body)

\* the slices <<cursor, iv_start>> and <<cursor, body_end>> that the walk
\* over all_intervals hands to Miscellany, before trimming
RECURSIVE Gaps(_, _, _)
Gaps(all_intervals, cursor, end_of_body) ==
    IF all_intervals = <<>>
    THEN IF cursor < end_of_body THEN <<<<cursor, end_of_body>>>> ELSE <<>>
    ELSE LET iv_start == all_intervals[1][1]
             iv_end == all_intervals[1][2]
         IN (IF cursor < iv_start THEN <<<<cursor, iv_start>>>> ELSE <<>>)
            \o Gaps(Tail(all_intervals),
                    IF cursor > iv_end THEN cursor ELSE iv_end, end_of_body)

\* faulty variant: every collected fragment is appended
NotDeduplicated(frags) == frags

\* the fragments of all_noise in order, each once
RECURSIVE Dedup(_)
Dedup(frags) ==
    IF frags = <<>> THEN <<>>
    ELSE LET init == Dedup(SubSeq(frags, 1, Len(frags) - 1))
             frag == frags[Len(frags)]
         IN IF \E i \in 1..Len(init) : init[i] = frag THEN init ELSE Append(init, frag)

STRIPPED_NOISE == <<"--- STRIPPED NOISE ---">>

NonEmpty(part) == part # <<>>

\* extract_issue from the loop over title_order on: the entry records, the
\* TOC, the Miscellany parts
ExtractEntries(t, es, front_matter, ads, sf, lf, strict_bounds, loose_bounds, title_order, strict_result, loose_result) ==
    LET offset == Len(front_matter)
        end_of_body == offset + Len(ads[1])
        entry_by_title == EntryByTitle(es)
        all_noise == Flatten([idx \in 1..Len(title_order) |->
            NoiseOf(strict_result[idx], loose_result[idx])])
        covered_intervals == Flatten([idx \in 1..Len(title_order) |->
            CoveredOf(strict_result[idx], loose_result[idx])])
        json_entry == List([idx \in 1..Len(title_order) |->
            LET entry == entry_by_title[title_order[idx]]
            IN [index |-> idx,
                title |-> entry.title,
                author |-> entry.author,
                etype |-> entry.etype,
                strict_loose_identical |-> Identical(strict_result[idx], loose_result[idx]),
                strict_match |-> strict_result[idx],
                loose_match |-> loose_result[idx]]])
        is_matched(e) == e.strict_match.matched \/ e.loose_match.matched
        toc == extract_toc_from_front_matter(front_matter)
        gaps == Gaps(SortedSet({covered_intervals[i] : i \in 1..Len(covered_intervals)}),
                     offset, end_of_body)
        misc_parts ==
            SelectSeq(<<Strip(toc[2])>>, NonEmpty)
            \o SelectSeq([i \in 1..Len(gaps) |-> Strip(Slice(t, gaps[i][1], gaps[i][2]))],
                         NonEmpty)
            \o (IF all_noise # <<>> THEN <<STRIPPED_NOISE>> \o Dedup(all_noise) ELSE <<>>)
    IN [front_matter |-> front_matter,
        body |-> ads[1],
        body_offset |-> offset,
        body_end |-> end_of_body,
        ads_text |-> ads[2],
        strict_found |-> sf,
        loose_found |-> lf,
        strict_bounds |-> strict_bounds,
        loose_bounds |-> loose_bounds,
        title_order |-> title_order,
        entries |-> SelectSeq(json_entry, is_matched),
        all_noise |-> all_noise,
        covered_intervals |-> covered_intervals,
        toc_text |-> toc[1],
        remaining_fm |-> toc[2],
        gaps |-> gaps,
        misc_parts |-> misc_parts]

\* extract_issue from the numbering on: both results of every title
ExtractOrdered(t, es, front_matter, ads, sf, lf, strict_bounds, loose_bounds, strict_by_title, loose_by_title, title_order) ==
    ExtractEntries(t, es, front_matter, ads, sf, lf, strict_bounds, loose_bounds,
                   title_order,
                   List([idx \in 1..Len(title_order) |->
                       StrategyResult(t, idx, title_order[idx], strict_by_title, "strict")]),
                   List([idx \in 1..Len(title_order) |->
                       StrategyResult(t, idx, title_order[idx], loose_by_title, "loose")]))

\* extract_issue from the spans on: the lookup dicts and the numbering
ExtractBounded(t, es, front_matter, ads, sf, lf, strict_bounds, loose_bounds) ==
    ExtractOrdered(t, es, front_matter, ads, sf, lf, strict_bounds, loose_bounds,
                   ByTitle(strict_bounds), ByTitle(loose_bounds),
                   TitleOrder(strict_bounds, loose_bounds))

\* extract_issue from the matches on: the spans of both strategies
ExtractFound(t, es, front_matter, ads, sf, lf) ==
    ExtractBounded(t, es, front_matter, ads, sf, lf,
                   boundaries_from_found(sf, Len(front_matter) + Len(ads[1])),
                   boundaries_from_found(lf, Len(front_matter) + Len(ads[1])))

\* extract_issue from the split on: both strategies run on the body
ExtractBody(t, es, front_matter, ads) ==
    ExtractFound(t, es, front_matter, ads,
                 match_entries_with_strategy(ads[1], es, Len(front_matter), TRUE),
                 match_entries_with_strategy(ads[1], es, Len(front_matter), FALSE))

extract_issue(t, es) ==
    LET split == split_front_matter(t)
    IN ExtractBody(t, es, split[1], find_ads_section(split[2], Len(split[1])))

(***************************************************************************)
(* Issue Extractor: manifest rows, files, printed lines.                   *)
(***************************************************************************)
ManifestRow(file, etype, title, author, strategy) ==
    [file |-> file, etype |-> etype, title |-> title, author |-> author, strategy |-> strategy]

\* the manifest rows of one entry record: one per strategy that matched
EntryRows(e) ==
    (IF e.strict_match.matched
     THEN <<ManifestRow(e.strict_match.file, e.etype, e.title, e.author, "strict")>> ELSE <<>>)
    \o (IF e.loose_match.matched
        THEN <<ManifestRow(e.loose_match.file, e.etype, e.title, e.author, "loose")>> ELSE <<>>)

\* the write_text calls of one strategy result, as <<file, content>>
ResultWrites(result, dry) ==
    IF result.matched /\ ~dry /\ result.content # <<>>
    THEN <<<<result.file, result.content>>>> ELSE <<>>

EntryWrites(e, dry) == ResultWrites(e.strict_match, dry) \o ResultWrites(e.loose_match, dry)

\* what the iteration for number idx prints: the dry-run line of a matched
\* entry, or the warning of the else branch
EntryPrints(rec, idx, dry) ==
    IF \E i \in 1..Len(rec.entries) : rec.entries[i].index = idx
    THEN IF dry
         THEN LET e == CHOOSE e \in {rec.entries[i] : i \in 1..Len(rec.entries)} : e.index = idx
              IN <<<<"entry", idx,
                     IF e.strict_match.matched THEN CharLen(e.strict_match.content) ELSE 0,
                     IF e.loose_match.matched THEN CharLen(e.loose_match.content) ELSE 0,
                     e.strict_loose_identical, e.title>>>>
         ELSE <<>>
    ELSE <<<<"WARNING: No match", rec.title_order[idx]>>>>

\* the file names TOC.txt, ADS.txt, MISC.txt
SectionFile(name) == <<name, ".txt">>

\* TOC.txt, ADS.txt, MISC.txt: the row, the write and the dry-run line
SectionType(name) == CASE name = "TOC" -> "toc" [] name = "ADS" -> "ads" [] name = "MISC" -> "misc"
SectionRows(name, content) ==
    IF content # <<>> THEN <<ManifestRow(SectionFile(name), SectionType(name), name, "", "")>> ELSE <<>>
SectionWrites(name, content, dry) ==
    IF content # <<>> /\ ~dry THEN <<<<SectionFile(name), content>>>> ELSE <<>>
SectionPrints(name, content, dry) ==
    IF content # <<>> /\ dry THEN <<<<SectionType(name), CharLen(content)>>>> ELSE <<>>

\* "\n\n---\n\n".join(misc_parts); the separator is one symbol
SEPARATOR == "\n\n---\n\n"
RECURSIVE Join(_)
Join(parts) ==
    IF parts = <<>> THEN <<>>
    ELSE IF Len(parts) = 1 THEN parts[1]
    ELSE parts[1] \o <<SEPARATOR>> \o Join(Tail(parts))

\* rec is the record extract_issue computes from the text; the fields added
\* here are stats["matched"], stats["manifest_rows"], the byte counts, the
\* write_text calls in order, the mkdir, and the printed lines
extract_issue_outputs(rec, t, dry) ==
    rec @@
    [matched |-> Len(rec.entries),
     total_bytes |-> CharLen(t),
     misc_bytes |-> CharLen(Join(rec.misc_parts)),
     manifest_rows |->
        Flatten([i \in 1..Len(rec.entries) |-> EntryRows(rec.entries[i])])
        \o SectionRows("TOC", rec.toc_text) \o SectionRows("ADS", rec.ads_text)
        \o SectionRows("MISC", Join(rec.misc_parts)),
     written |->
        Flatten([i \in 1..Len(rec.entries) |-> EntryWrites(rec.entries[i], dry)])
        \o SectionWrites("TOC", rec.toc_text, dry) \o SectionWrites("ADS", rec.ads_text, dry)
        \o SectionWrites("MISC", Join(rec.misc_parts), dry),
     made_dir |-> ~dry,
     printed |->
        (IF rec.front_matter = <<>>
         THEN <<<<"WARNING: MAGAZINE CIRCULATION marker not found">>>> ELSE <<>>)
        \o Flatten([idx \in 1..Len(rec.title_order) |-> EntryPrints(rec, idx, dry)])
        \o SectionPrints("TOC", rec.toc_text, dry) \o SectionPrints("ADS", rec.ads_text, dry)
        \o SectionPrints("MISC", Join(rec.misc_parts), dry)]

\* the file system after the writes ws into directory dir, in order; a later
\* write of a path replaces the earlier content
RECURSIVE WriteAll(_, _, _)
WriteAll(fs, dir, ws) ==
    IF ws = <<>> THEN fs
    ELSE WriteAll({f \in fs : f[1] # <<dir, ws[1][1]>>} \cup {<<<<dir, ws[1][1]>>, ws[1][2]>>},
                  dir, Tail(ws))

ISSUE_DIR == "issue_dir"

(***************************************************************************)
(* Inputs.                                                                 *)
(***************************************************************************)
\* TOC titles: not empty, no leading or trailing space, no doubled space
IsTitle(t) ==
    /\ t # <<>>
    /\ t[1] # SP /\ t[Len(t)] # SP
    /\ \A j \in 1..Len(t) - 1 : ~(t[j] = SP /\ t[j + 1] = SP)

Titles(chars, n) == {t \in SeqUpTo(chars, n) : IsTitle(t)}

\* the i-th entry of a TOC with the given titles
Entry(titles, i) ==
    [title |-> titles[i], author |-> i, etype |-> IF i % 2 = 1 THEN "article" ELSE "poem"]

TOC(titles) == List([i \in 1..Len(titles) |-> Entry(titles, i)])

(***************************************************************************)
(* Variables a specification does not use keep these values.               *)
(***************************************************************************)
IdleBoundaries == found = <<>> /\ boundaries = <<>>
IdleMatch == strict_found = <<>> /\ loose_found = <<>>
IdleNoise == cleaned = <<>> /\ noise = <<>>
IdleIssue == issue = <<>>
IdleOutputs == files = {} /\ dirs = {} /\ log = <<>>
IdleOcr == limiter = <<>> /\ ocr = <<>>
IdleAux == main = <<>> /\ san = <<>> /\ api = <<>> /\ IdleOcr
RealRun == dry_run = FALSE /\ IdleOutputs /\ IdleAux

(***************************************************************************)
(* SpecBoundaries: _boundaries_from_found on every bounded input.          *)
(***************************************************************************)
FoundEntries == {Entry(<<<<"k">>, <<"q">>>>, i) : i \in 1..2}

InitBoundaries ==
    /\ pc = "call"
    /\ found \in SeqUpTo((0..MaxPos) \X FoundEntries, MaxFound)
    /\ body_end \in 0..MaxPos
    /\ boundaries = <<>>
    /\ text = <<>> /\ entries = <<>> /\ body = <<>> /\ body_offset = 0
    /\ IdleMatch /\ IdleNoise /\ IdleIssue /\ RealRun

BoundariesFromFound ==
    /\ pc = "call"
    /\ boundaries' = boundaries_from_found(found, body_end)
    /\ pc' = "done"
    /\ UNCHANGED <<text, entries, body, body_offset, body_end, found,
                   strict_found, loose_found, cleaned, noise, issue,
                   dry_run, files, dirs, log, aux>>

SpecBoundaries == InitBoundaries /\ [][BoundariesFromFound]_vars

(***************************************************************************)
(* SpecMatch: _match_entries_with_strategy under both strategies, for one  *)
(* body and one TOC entry (SpecIssue has the longer TOCs).                 *)
(***************************************************************************)
MatchBodyChars == {"K", "q", SP, NL}
MatchTitleChars == {"k", SP}

InitMatch ==
    /\ pc = "call"
    /\ body \in SeqUpTo(MatchBodyChars, MaxBody)
    /\ \E title \in Titles(MatchTitleChars, MaxTitle) : entries = TOC(<<title>>)
    /\ body_offset \in {0, MaxOffset}
    /\ strict_found = <<>> /\ loose_found = <<>>
    /\ text = <<>> /\ body_end = 0
    /\ IdleBoundaries /\ IdleNoise /\ IdleIssue /\ RealRun

MatchEntries ==
    /\ pc = "call"
    /\ strict_found' = match_entries_with_strategy(body, entries, body_offset, TRUE)
    /\ loose_found' = match_entries_with_strategy(body, entries, body_offset, FALSE)
    /\ pc' = "done"
    /\ UNCHANGED <<text, entries, body, body_offset, body_end, found, boundaries,
                   cleaned, noise, issue, dry_run, files, dirs, log, aux>>

SpecMatch == InitMatch /\ [][MatchEntries]_vars

(***************************************************************************)
(* SpecNoise: strip_running_noise applied to a text, then applied again to *)
(* its own cleaned output.  pc counts the applications.                    *)
(***************************************************************************)
NoiseChars == {"x", NL, RSM, LESSON_DEPARTMENT, ENTERED, AUTHORIZED}

InitNoise ==
    /\ pc = 0
    /\ text \in SeqUpTo(NoiseChars, MaxNoiseText)
    /\ cleaned = <<>> /\ noise = <<>>
    /\ entries = <<>> /\ body = <<>> /\ body_offset = 0 /\ body_end = 0
    /\ IdleBoundaries /\ IdleMatch /\ IdleIssue /\ RealRun

\* the first call cleans text; the second call cleans the first call's output
StripRunningNoise ==
    /\ pc \in {0, 1}
    /\ LET r == strip_running_noise(IF pc = 0 THEN text ELSE cleaned)
       IN /\ cleaned' = r[1]
          /\ noise' = r[2]
          /\ text' = IF pc = 0 THEN text ELSE cleaned
    /\ pc' = pc + 1
    /\ UNCHANGED <<entries, body, body_offset, body_end, found, boundaries,
                   strict_found, loose_found, issue, dry_run, files, dirs, log, aux>>

SpecNoise == InitNoise /\ [][StripRunningNoise]_vars

(***************************************************************************)
(* SpecIssue: extract_issue on one issue.  The issue text is an optional   *)
(* front matter, a body and an optional advertising tail.  The printer's   *)
(* mark of the short tail lies before the last 30% of a short body; the    *)
(* long tail starts with a notice that belongs to the body.                *)
(***************************************************************************)
IssueBodyChars == {"k", "Q", NL, RSM}
IssueTitles == {<<"k">>, <<"q">>}
IssueFronts == {<<>>, <<"x", CONTENTS, "k", GENERAL_BOARD, "x", MAGAZINE_CIRCULATION, "x", NL>>}
IssueTails == {<<>>, <<NL, NL, DESERET_NEWS_PRESS, "x">>,
               <<STAMPS, NL, NL, DESERET_NEWS_PRESS, "x">>}

InitIssue ==
    /\ pc = "call"
    /\ \E front \in IssueFronts, tail \in IssueTails :
          \E b \in SeqUpTo(IssueBodyChars, MaxIssueBody) :
             /\ (front = <<>>) = (tail = <<>>)
             /\ text = front \o b \o tail
    /\ \E ts \in SeqUpTo(IssueTitles, MaxEntries) : entries = TOC(ts)
    /\ body = <<>> /\ body_offset = 0 /\ body_end = 0
    /\ strict_found = <<>> /\ loose_found = <<>>
    /\ issue = <<>>
    /\ IdleBoundaries /\ IdleNoise /\ RealRun

ExtractIssue ==
    /\ pc = "call"
    /\ issue' = extract_issue_outputs(extract_issue(text, entries), text, dry_run)
    /\ files' = WriteAll(files, ISSUE_DIR, issue'.written)
    /\ dirs' = IF issue'.made_dir THEN dirs \cup {ISSUE_DIR} ELSE dirs
    /\ log' = log \o issue'.printed
    /\ body' = issue'.body
    /\ body_offset' = issue'.body_offset
    /\ body_end' = issue'.body_end
    /\ strict_found' = issue'.strict_found
    /\ loose_found' = issue'.loose_found
    /\ pc' = "done"
    /\ UNCHANGED <<text, entries, found, boundaries, cleaned, noise, dry_run, aux>>

SpecIssue == InitIssue /\ [][ExtractIssue]_vars

(***************************************************************************)
(* SpecOrder: extract_issue on issues without front matter, noise or ads,  *)
(* with longer TOCs of distinct titles; the body may hold a word of no     *)
(* title listed in the TOC.                                                *)
(***************************************************************************)
OrderBodyChars == {"k", "Q", "V", NL}
OrderTitles == {<<"k">>, <<"q">>, <<"v">>}

InitOrder ==
    /\ pc = "call"
    /\ text \in SeqUpTo(OrderBodyChars, MaxOrderBody)
    /\ \E ts \in SeqUpTo(OrderTitles, MaxOrderEntries) :
          /\ \A i, j \in 1..Len(ts) : ts[i] = ts[j] => i = j
          /\ entries = TOC(ts)
    /\ body = <<>> /\ body_offset = 0 /\ body_end = 0
    /\ strict_found = <<>> /\ loose_found = <<>>
    /\ issue = <<>>
    /\ IdleBoundaries /\ IdleNoise /\ RealRun

SpecOrder == InitOrder /\ [][ExtractIssue]_vars

(***************************************************************************)
(* SpecHeaders: extract_issue on issues without front matter or ads whose  *)
(* body may hold running headers between the occurrences of a title.       *)
(***************************************************************************)
InitHeaders ==
    /\ pc = "call"
    /\ text \in SeqUpTo(IssueBodyChars, MaxHeaderBody)
    /\ \E ts \in SeqUpTo(IssueTitles, MaxEntries) : entries = TOC(ts)
    /\ body = <<>> /\ body_offset = 0 /\ body_end = 0
    /\ strict_found = <<>> /\ loose_found = <<>>
    /\ issue = <<>>
    /\ IdleBoundaries /\ IdleNoise /\ RealRun

SpecHeaders == InitHeaders /\ [][ExtractIssue]_vars

(***************************************************************************)
(* SpecFiles: extract_issue with and without --dry-run, on issues without  *)
(* front matter, noise or ads.  One title of the TOC is the beginning of   *)
(* another, one title occurs in no body.                                   *)
(***************************************************************************)
FilesBodyChars == {"k", "Q", NL}
FilesTitles == {<<"k">>, <<"k", "q">>, <<"v">>}

InitFiles ==
    /\ pc = "call"
    /\ text \in SeqUpTo(FilesBodyChars, MaxFilesBody)
    /\ \E ts \in SeqUpTo(FilesTitles, MaxFilesEntries) : entries = TOC(ts)
    /\ dry_run \in BOOLEAN
    /\ body = <<>> /\ body_offset = 0 /\ body_end = 0
    /\ strict_found = <<>> /\ loose_found = <<>>
    /\ issue = <<>>
    /\ IdleBoundaries /\ IdleNoise /\ IdleOutputs /\ IdleAux

SpecFiles == InitFiles /\ [][ExtractIssue]_vars

(***************************************************************************)
(* SpecWhole: extract_issue on whole issues (front matter with a TOC, body,*)
(* ads) whose TOC may list a title twice or a title that begins another.   *)
(***************************************************************************)
InitWhole ==
    /\ pc = "call"
    /\ \E front \in IssueFronts, tail \in IssueTails :
          \E b \in SeqUpTo(FilesBodyChars, MaxFilesBody) :
             /\ (front = <<>>) = (tail = <<>>)
             /\ text = front \o b \o tail
    /\ \E ts \in SeqUpTo(FilesTitles, MaxFilesEntries) : entries = TOC(ts)
    /\ body = <<>> /\ body_offset = 0 /\ body_end = 0
    /\ strict_found = <<>> /\ loose_found = <<>>
    /\ issue = <<>>
    /\ IdleBoundaries /\ IdleNoise /\ RealRun

SpecWhole == InitWhole /\ [][ExtractIssue]_vars

(***************************************************************************)
(* SpecNames: extract_issue on whole issues whose TOC may list titles that *)
(* sanitize_filename maps to one name ("k", "k.") or to the empty name     *)
(* ("."), or one title twice.                                              *)
(***************************************************************************)
NamesBodyChars == {"k", ".", NL}
NamesTitles == {<<"k">>, <<"k", ".">>, <<".">>}

InitNames ==
    /\ pc = "call"
    /\ \E front \in IssueFronts, tail \in IssueTails :
          \E b \in SeqUpTo(NamesBodyChars, MaxNamesBody) :
             /\ (front = <<>>) = (tail = <<>>)
             /\ text = front \o b \o tail
    /\ \E ts \in SeqUpTo(NamesTitles, MaxFilesEntries) : entries = TOC(ts)
    /\ body = <<>> /\ body_offset = 0 /\ body_end = 0
    /\ strict_found = <<>> /\ loose_found = <<>>
    /\ issue = <<>>
    /\ IdleBoundaries /\ IdleNoise /\ RealRun

SpecNames == InitNames /\ [][ExtractIssue]_vars

(***************************************************************************)
(* SpecSplit: split_front_matter on every bounded text; the parts are kept *)
(* in issue.front_matter and body.                                         *)
(***************************************************************************)
SplitChars == {MAGAZINE_CIRCULATION, NL, SP, "x"}

InitSplit ==
    /\ pc = "call"
    /\ text \in SeqUpTo(SplitChars, MaxSplitText)
    /\ entries = <<>> /\ body = <<>> /\ body_offset = 0 /\ body_end = 0
    /\ IdleBoundaries /\ IdleMatch /\ IdleNoise /\ IdleIssue /\ RealRun

SplitFrontMatter ==
    /\ pc = "call"
    /\ issue' = [front_matter |-> split_front_matter(text)[1]]
    /\ body' = split_front_matter(text)[2]
    /\ log' = IF Search(<<One(MAGAZINE_CIRCULATION)>>, text, 0).start = Fail
              THEN Append(log, <<"WARNING: MAGAZINE CIRCULATION marker not found">>)
              ELSE log
    /\ pc' = "done"
    /\ UNCHANGED <<text, entries, body_offset, body_end, found, boundaries,
                   strict_found, loose_found, cleaned, noise, dry_run, files, dirs, aux>>

SpecSplit == InitSplit /\ [][SplitFrontMatter]_vars

(***************************************************************************)
(* SpecAlign: the head of extract_issue (split_front_matter, the body      *)
(* offset, find_ads_section, both searches) in extract_vol36_40.py and in  *)
(* extract_vol36.py, on texts made of a padding of empty lines and a few   *)
(* pieces.  issue keeps the script and the two parts of the split.         *)
(***************************************************************************)
AlignPieces == {<<PUBLISHED_BY_BOARD>>, <<MAGAZINE_CIRCULATION>>, <<NL>>, <<"k">>, <<"x">>,
                <<PAGE, SP, "1", SP, "K">>}
AlignPaddings == {<<>>, <<NL, NL, NL, NL, NL, NL>>}

RECURSIVE Concat(_)
Concat(parts) == IF parts = <<>> THEN <<>> ELSE parts[1] \o Concat(Tail(parts))

InitAlign ==
    /\ pc = "call"
    /\ \E padding \in AlignPaddings, parts \in SeqUpTo(AlignPieces, MaxAlignPieces) :
          text = padding \o Concat(parts)
    /\ entries = TOC(<<<<"k">>>>)
    /\ body = <<>> /\ body_offset = 0 /\ body_end = 0
    /\ strict_found = <<>> /\ loose_found = <<>>
    /\ IdleBoundaries /\ IdleNoise /\ IdleIssue /\ RealRun

\* extract_vol36_40.py, lines 863-877
AlignVol36_40 ==
    /\ pc = "call"
    /\ LET split == split_front_matter(text)
           ads == find_ads_section(split[2], Len(split[1]))
       IN /\ issue' = [script |-> "extract_vol36_40", front_matter |-> split[1], rest |-> split[2]]
          /\ body_offset' = Len(split[1])
          /\ body' = ads[1]
          /\ body_end' = Len(split[1]) + Len(ads[1])
          /\ strict_found' = match_entries_with_strategy(ads[1], entries, Len(split[1]), TRUE)
          /\ loose_found' = match_entries_with_strategy(ads[1], entries, Len(split[1]), FALSE)
    /\ pc' = "done"
    /\ UNCHANGED <<text, entries, found, boundaries, cleaned, noise, dry_run, files, dirs, log, aux>>

\* extract_vol36.py, lines 813-826
AlignVol36 ==
    /\ pc = "call"
    /\ LET split == split_front_matter_vol36(text)
           ads == find_ads_section_vol36(split[2], Len(split[1]))
       IN /\ issue' = [script |-> "extract_vol36", front_matter |-> split[1], rest |-> split[2]]
          /\ body_offset' = Len(split[1])
          /\ body' = ads[1]
          /\ body_end' = Len(split[1]) + Len(ads[1])
          /\ strict_found' = match_entries_vol36(ads[1], entries, Len(split[1]), TRUE)
          /\ loose_found' = match_entries_vol36(ads[1], entries, Len(split[1]), FALSE)
    /\ pc' = "done"
    /\ UNCHANGED <<text, entries, found, boundaries, cleaned, noise, dry_run, files, dirs, log, aux>>

NextAlign == AlignVol36_40 \/ AlignVol36

SpecAlign == InitAlign /\ [][NextAlign]_vars

(***************************************************************************)
(* SpecAds: find_ads_section on bodies made of a padding, a short text     *)
(* with markers and blank lines, and a tail.  The paddings bring a marker  *)
(* to character 62 of a body of 90 characters, and put 499 characters or   *)
(* more between a blank line and a marker.  text is the body handed in,    *)
(* body the body returned.                                                 *)
(***************************************************************************)
AdsChars == {DESERET_NEWS_PRESS, MORMON_HANDICRAFT, NL, "x"}
AdsPads ==
    {<<>>,
     <<ENTERED, AUTHORIZED, "JANUARY">>,
     <<NL, NL, STAMPS, STAMPS, STAMPS, STAMPS, STAMPS, STAMPS, STAMPS, STAMPS, STAMPS,
       MAGAZINE_CIRCULATION, CONTENTS, "x">>}
AdsTails == {<<>>, <<CONTENTS, "x", "x">>}

InitAds ==
    /\ pc = "call"
    /\ \E pad \in AdsPads, mid \in SeqUpTo(AdsChars, MaxAdsBody), tail \in AdsTails :
          text = pad \o mid \o tail
    /\ body_offset \in 0..MaxOffset
    /\ entries = <<>> /\ body = <<>> /\ body_end = 0
    /\ IdleBoundaries /\ IdleMatch /\ IdleNoise /\ IdleIssue /\ RealRun

FindAdsSection ==
    /\ pc = "call"
    /\ body' = find_ads_section(text, body_offset)[1]
    /\ issue' = [ads_text |-> find_ads_section(text, body_offset)[2],
                 ads_start |-> find_ads_section(text, body_offset)[3]]
    /\ pc' = "done"
    /\ UNCHANGED <<text, entries, body_offset, body_end, found, boundaries,
                   strict_found, loose_found, cleaned, noise, dry_run, files, dirs, log, aux>>

SpecAds == InitAds /\ [][FindAdsSection]_vars

(***************************************************************************)
(* SpecSanitize: sanitize_filename on every bounded string and length.     *)
(***************************************************************************)
NameChars == {"a", SP, "_", "-", ":"}

InitSanitize ==
    /\ pc = "call"
    /\ \E s \in SeqUpTo(NameChars, MaxName), max_len \in 0..MaxClip :
          san = [s |-> s, max_len |-> max_len, result |-> <<>>]
    /\ main = <<>> /\ api = <<>> /\ IdleOcr
    /\ text = <<>> /\ entries = <<>> /\ body = <<>> /\ body_offset = 0 /\ body_end = 0
    /\ IdleBoundaries /\ IdleMatch /\ IdleNoise /\ IdleIssue /\ IdleOutputs
    /\ dry_run = FALSE

SanitizeFilename ==
    /\ pc = "call"
    /\ san' = [san EXCEPT !.result = sanitize_filename(san.s, san.max_len)]
    /\ log' = IF Len(Unclipped(san.s)) > san.max_len
              THEN Append(log, <<"WARNING: filename is being clipped", Unclipped(san.s)>>)
              ELSE log
    /\ pc' = "done"
    /\ UNCHANGED <<text, entries, body, body_offset, body_end, found, boundaries,
                   strict_found, loose_found, cleaned, noise, issue, dry_run, files, dirs,
                   main, api, limiter, ocr>>

SpecSanitize == InitSanitize /\ [][SanitizeFilename]_vars

(***************************************************************************)
(* call_gpt (ocr_cleanup.py): one chunk sent to the API, with a fresh      *)
(* TokenRateLimiter.  The API's answer to each attempt is chosen by the    *)
(* environment; an error carries the phrases of its message and whether    *)
(* the request really exceeds the per-request size limit.                  *)
(***************************************************************************)
MAX_RETRIES == 5
INITIAL_BACKOFF == 2
TPM_LIMIT == 30000
MAX_TOKENS_PER_REQUEST == 12000
Window == 60

Answer(kind, message, size_limit, usage) ==
    [kind |-> kind, message |-> message, size_limit |-> size_limit, usage |-> usage]

\* usage 0 stands for a response without usage
Successes == {Answer("ok", <<>>, FALSE, u) : u \in {0, 9000}}
ApiErrors == {Answer("APIError", <<"Connection error">>, FALSE, 0)}
RateLimitErrors ==
    {Answer("RateLimitError", <<"You exceeded your current quota">>, FALSE, 0),
     Answer("RateLimitError",
            <<"Rate limit reached", "Limit", "Used", "Requested", "Please try again">>,
            FALSE, 0),
     Answer("RateLimitError", <<"Request too large", "Limit", "Requested">>, TRUE, 0)}

\* phrase in str(e)
InMessage(phrase, answer) == \E i \in 1..Len(answer.message) : answer.message[i] = phrase

\* a faulty variant of the test: every RateLimitError is retried
RetriedAlways(answer) == FALSE

\* the test of lines 323-324
TreatedAsSizeLimit(answer) ==
    InMessage("Request too large", answer) \/ InMessage("Requested", answer)

\* a faulty variant of _expire: nothing is removed
ExpireNothing(window, now) == window

\* TokenRateLimiter._expire and _tokens_used
RECURSIVE Expire(_, _)
Expire(window, now) ==
    IF window # <<>> /\ window[1][1] < now - Window THEN Expire(Tail(window), now) ELSE window
RECURSIVE TokensUsed(_)
TokensUsed(window) == IF window = <<>> THEN 0 ELSE window[1][2] + TokensUsed(Tail(window))

\* time.sleep(wait) of line 261 lasts at least wait = oldest + 60 - now + 0.1
\* seconds; the clock of the model counts whole seconds, so the sleep ends
\* at the next one
SleepSlack == 1

\* one turn of the loop of wait_if_needed (lines 249-262): the window after
\* _expire, whether the call returns, and otherwise the sleep and the lines
\* printed before it
WaitTurn(window, now, estimated_tokens, tpm_limit) ==
    LET live == Expire(window, now)
        used == TokensUsed(live)
        wait == (live[1][1] + Window) - now + SleepSlack
    IN  IF used + estimated_tokens <= tpm_limit
        THEN [window |-> live, returns |-> TRUE, sleep |-> 0, prints |-> <<>>]
        ELSE IF live = <<>>
        THEN [window |-> live, returns |-> FALSE, sleep |-> Window,
              prints |-> << <<"Warning: single request exceeds TPM budget", estimated_tokens>>,
                            <<"Waiting 60s for rate limit window to reset", Window>> >>]
        ELSE [window |-> live, returns |-> FALSE, sleep |-> IF wait > 0 THEN wait ELSE 0,
              prints |-> IF wait > 0 THEN << <<"Throttling", used, wait>> >> ELSE <<>>]

\* the limiter as earlier calls of the run left it: its window and the time
PriorLimiters ==
    {[window |-> <<>>, now |-> 0],
     [window |-> << <<0, 20000>> >>, now |-> 30],
     [window |-> << <<0, 20000>>, <<10, 9000>> >>, now |-> 30]}

InitCallGpt ==
    /\ pc = "call_gpt"
    /\ \E estimated_total \in {MAX_TOKENS_PER_REQUEST, MAX_TOKENS_PER_REQUEST + 2},
          prior \in PriorLimiters :
          api = [pc |-> "start", estimated_total |-> estimated_total, attempt |-> 0,
                 backoff |-> 0, calls |-> 0, slept |-> <<>>, history |-> <<>>,
                 window |-> prior.window, now |-> prior.now, waited |-> <<>>,
                 result |-> "", error |-> ""]
    /\ main = <<>> /\ san = <<>> /\ IdleOcr
    /\ text = <<>> /\ entries = <<>> /\ body = <<>> /\ body_offset = 0 /\ body_end = 0
    /\ IdleBoundaries /\ IdleMatch /\ IdleNoise /\ IdleIssue /\ IdleOutputs
    /\ dry_run = FALSE

idle_in_call_gpt == <<pc, text, entries, body, body_offset, body_end, found, boundaries, strict_found, loose_found, cleaned, noise, issue, dry_run, files, dirs, main, san, limiter, ocr>>

\* the size check of lines 295-299
CallGptStart ==
    /\ api # <<>> /\ api.pc = "start"
    /\ IF api.estimated_total > MAX_TOKENS_PER_REQUEST
       THEN api' = [api EXCEPT !.pc = "raised", !.error = "ValueError"]
       ELSE api' = [api EXCEPT !.pc = "wait_if_needed"]
    /\ UNCHANGED <<log, idle_in_call_gpt>>

\* limiter.wait_if_needed(estimated_total), one turn of its loop, and
\* backoff = INITIAL_BACKOFF when it returns
CallGptWaitIfNeeded ==
    /\ api # <<>> /\ api.pc = "wait_if_needed"
    /\ LET turn == WaitTurn(api.window, api.now, api.estimated_total, TPM_LIMIT)
       IN  /\ api' = [api EXCEPT !.window = turn.window,
                                 !.now = @ + turn.sleep,
                                 !.waited = IF turn.returns \/ turn.sleep = 0 THEN @ ELSE Append(@, turn.sleep),
                                 !.pc = IF turn.returns THEN "attempt" ELSE @,
                                 !.backoff = IF turn.returns THEN INITIAL_BACKOFF ELSE @]
           /\ log' = log \o turn.prints
    /\ UNCHANGED idle_in_call_gpt

\* what a failed attempt that is retried or re-raised does
RetryOrRaise(answer, line) ==
    IF api.attempt < MAX_RETRIES - 1
    THEN /\ api' = [api EXCEPT !.calls = @ + 1, !.history = Append(@, answer),
                               !.slept = Append(@, api.backoff),
                               !.now = @ + api.backoff,
                               !.backoff = @ * 2,
                               !.attempt = @ + 1]
         /\ log' = Append(log, <<line, api.backoff>>)
    ELSE /\ api' = [api EXCEPT !.calls = @ + 1, !.history = Append(@, answer),
                               !.pc = "raised", !.error = answer.kind]
         /\ log' = log

CallGptSuccess ==
    /\ api # <<>> /\ api.pc = "attempt"
    /\ \E answer \in Successes :
          api' = [api EXCEPT !.calls = @ + 1, !.history = Append(@, answer),
                            !.window = IF answer.usage # 0
                                       THEN Append(@, <<api.now, answer.usage>>) ELSE @,
                            !.pc = "returned", !.result = "content"]
    /\ UNCHANGED <<log, idle_in_call_gpt>>

CallGptRateLimitError ==
    /\ api # <<>> /\ api.pc = "attempt"
    /\ \E answer \in RateLimitErrors :
          IF TreatedAsSizeLimit(answer)
          THEN /\ api' = [api EXCEPT !.calls = @ + 1, !.history = Append(@, answer),
                                     !.pc = "raised", !.error = "ValueError"]
               /\ log' = log
          ELSE RetryOrRaise(answer, "Rate limited, waiting")
    /\ UNCHANGED idle_in_call_gpt

CallGptAPIError ==
    /\ api # <<>> /\ api.pc = "attempt"
    /\ \E answer \in ApiErrors : RetryOrRaise(answer, "API error, retrying in")
    /\ UNCHANGED idle_in_call_gpt

NextCallGpt == CallGptStart \/ CallGptWaitIfNeeded \/ CallGptSuccess \/ CallGptRateLimitError \/ CallGptAPIError

SpecCallGpt == InitCallGpt /\ [][NextCallGpt]_vars

(***************************************************************************)
(* A TokenRateLimiter over a series of requests, used as call_gpt uses it: *)
(* wait_if_needed with the estimate, then, when the response carries its   *)
(* usage, record.  The estimates, the usage the API reports and the time   *)
(* the API takes are chosen by the environment.                            *)
(***************************************************************************)
Estimates == {10000, MAX_TOKENS_PER_REQUEST, MAX_TOKENS_PER_REQUEST + 2}
\* response.usage.total_tokens; 0 stands for a response without usage
Usages == {0, 8000, 12000}
Latencies == {1, 30}
\* tpm_limit: one below MAX_TOKENS_PER_REQUEST, and the limit main passes
TpmLimits == {10000, TPM_LIMIT}

InitLimiter ==
    /\ pc = "limiter"
    /\ \E tpm_limit \in TpmLimits :
          limiter = [pc |-> "idle", tpm_limit |-> tpm_limit, window |-> <<>>, now |-> 0,
                     estimated_tokens |-> 0, waited |-> <<>>, error |-> "",
                     requests |-> 0, recorded |-> <<>>]
    /\ main = <<>> /\ san = <<>> /\ api = <<>> /\ ocr = <<>>
    /\ text = <<>> /\ entries = <<>> /\ body = <<>> /\ body_offset = 0 /\ body_end = 0
    /\ IdleBoundaries /\ IdleMatch /\ IdleNoise /\ IdleIssue /\ IdleOutputs
    /\ dry_run = FALSE

idle_in_limiter == <<pc, text, entries, body, body_offset, body_end, found, boundaries, strict_found, loose_found, cleaned, noise, issue, dry_run, files, dirs, main, san, api, ocr>>

\* wait_if_needed is called: the check of lines 244-247
WaitIfNeeded ==
    /\ limiter # <<>> /\ limiter.pc = "idle" /\ limiter.requests < MaxRequests
    /\ \E estimated_tokens \in Estimates :
          limiter' = [limiter EXCEPT
              !.requests = @ + 1, !.estimated_tokens = estimated_tokens, !.waited = <<>>,
              !.error = IF estimated_tokens > MAX_TOKENS_PER_REQUEST THEN "ValueError" ELSE "",
              !.pc = IF estimated_tokens > MAX_TOKENS_PER_REQUEST THEN "idle" ELSE "wait_if_needed"]
    /\ UNCHANGED <<log, idle_in_limiter>>

\* one turn of the loop of wait_if_needed
WaitLoop ==
    /\ limiter # <<>> /\ limiter.pc = "wait_if_needed"
    /\ LET turn == WaitTurn(limiter.window, limiter.now, limiter.estimated_tokens, limiter.tpm_limit)
       IN  /\ limiter.now + turn.sleep <= MaxClock
           /\ limiter' = [limiter EXCEPT
                  !.window = turn.window, !.now = @ + turn.sleep,
                  !.waited = IF turn.returns \/ turn.sleep = 0 THEN @ ELSE Append(@, turn.sleep),
                  !.pc = IF turn.returns THEN "request" ELSE @]
           /\ log' = log \o turn.prints
    /\ UNCHANGED idle_in_limiter

\* the API answers after a while, and record is called with its usage
Record ==
    /\ limiter # <<>> /\ limiter.pc = "request"
    /\ \E total_tokens \in Usages, latency \in Latencies :
          /\ limiter.now + latency <= MaxClock
          /\ limiter' = [limiter EXCEPT
                 !.now = @ + latency,
                 !.window = IF total_tokens # 0
                            THEN Append(@, <<limiter.now + latency, total_tokens>>) ELSE @,
                 !.recorded = IF total_tokens # 0
                              THEN Append(@, <<limiter.now + latency, total_tokens>>) ELSE @,
                 !.pc = "idle"]
    /\ UNCHANGED <<log, idle_in_limiter>>

NextLimiter == WaitIfNeeded \/ WaitLoop \/ Record

SpecLimiter == InitLimiter /\ [][NextLimiter]_vars

\* time passes and the loop of wait_if_needed takes its turns
FairLimiter == InitLimiter /\ [][NextLimiter]_vars /\ WF_vars(WaitLoop)

(***************************************************************************)
(* main: the loop over the issues of the TOC, and the files written at the *)
(* end of the run.  The model's TOC maps the keys 1, 2, ... (in order) to  *)
(* one list of entries; an issue of the environment says whether its key   *)
(* is in ISSUE_FILES and whether its source file exists.                   *)
(***************************************************************************)
\* the pattern compiled from a title to find it at the head of a content:
\* re.sub(r'\s+', r'\\s+', re.escape(title)) turns the escaped space into an
\* escaped backslash followed by 's+'
TitlePat(title) ==
    Flatten([j \in 1..Len(title) |->
        IF title[j] \in Whitespace
        THEN <<Literal("\\"), Cls({d \in Symbols : Fold(d) = "s"}, 1, Unbounded, TRUE)>>
        ELSE <<Literal(title[j])>>])

\* content[:200]; a symbol cut in two is dropped
FlagHead == 200
HeadOf(content) ==
    Slice(content, 0, Max({i \in 0..Len(content) : CharLen(Slice(content, 0, i)) <= FlagHead}))

FlaggedOfResult(month, e, strategy, match_data) ==
    IF match_data.matched /\ Search(TitlePat(e.title), HeadOf(match_data.content), 0).start = Fail
    THEN <<[title |-> e.title, index |-> e.index, month |-> month, strategy |-> strategy,
            file |-> match_data.file, content |-> match_data.content]>>
    ELSE <<>>

\* the flagged entries of one volume; months is a list of <<month, month_json>>
Flagged(months) ==
    Flatten([m \in 1..Len(months) |->
        Flatten([i \in 1..Len(months[m][2].entries) |->
            FlaggedOfResult(months[m][1], months[m][2].entries[i], "strict",
                            months[m][2].entries[i].strict_match)
            \o FlaggedOfResult(months[m][1], months[m][2].entries[i], "loose",
                               months[m][2].entries[i].loose_match)])])

MonthJson(stats) ==
    [entries |-> stats.entries, toc |-> stats.toc_text, ads |-> stats.ads_text,
     misc |-> Join(stats.misc_parts)]

\* volume_json (a list of [volume, months], in insertion order) after
\* volume_json[vol]["months"][month] = month_json
AddMonth(volume_json, vol, month, month_json) ==
    IF \E i \in 1..Len(volume_json) : volume_json[i].volume = vol
    THEN List([i \in 1..Len(volume_json) |->
            IF volume_json[i].volume = vol
            THEN [volume_json[i] EXCEPT !.months = Append(@, <<month, month_json>>)]
            ELSE volume_json[i]])
    ELSE Append(volume_json, [volume |-> vol, months |-> <<<<month, month_json>>>>])

\* the files main writes after the loop, in order
VolumeWrites(data) ==
    <<[path |-> <<data.volume, "entries.json">>, content |-> data]>>
    \o (IF Flagged(data.months) # <<>>
        THEN <<[path |-> <<data.volume, "flagged_for_review.json">>,
                content |-> Flagged(data.months)]>>
        ELSE <<>>)

\* faulty variant: manifest.csv is written whenever there are rows
FinalWritesManifestAlways(volume_json, all_manifest_rows, dry) ==
    (IF ~dry THEN Flatten([i \in 1..Len(volume_json) |-> VolumeWrites(volume_json[i])])
     ELSE <<>>)
    \o (IF all_manifest_rows # <<>>
        THEN <<[path |-> <<"manifest.csv">>, content |-> all_manifest_rows]>>
        ELSE <<>>)

FinalWrites(volume_json, all_manifest_rows, dry) ==
    (IF ~dry THEN Flatten([i \in 1..Len(volume_json) |-> VolumeWrites(volume_json[i])])
     ELSE <<>>)
    \o (IF all_manifest_rows # <<>> /\ ~dry
        THEN <<[path |-> <<"manifest.csv">>, content |-> all_manifest_rows]>>
        ELSE <<>>)

MainVolumes == {36, 37}
MainTexts == {<<"k", "Q">>, <<"Q", NL, "k", SP, "q">>}
MainEntries == TOC(<<<<"k">>, <<"k", SP, "q">>>>)
MainIssues ==
    {i \in [vol : MainVolumes, source : {"unmapped", "missing", "present"},
            text : MainTexts \cup {<<>>}] :
        i.source = "present" <=> i.text # <<>>}

InitMain ==
    /\ pc = "main"
    /\ \E todo \in SeqUpTo(MainIssues, MaxIssues), volume \in {0} \cup MainVolumes,
          clean_dir \in BOOLEAN :
          \* a source file that exists lies under CLEAN_DIR
          /\ (\E i \in 1..Len(todo) : todo[i].source = "present") => clean_dir
          /\ main = [pc |-> "loop", todo |-> todo, key |-> 1, volume |-> volume,
                     clean_dir |-> clean_dir, issues_processed |-> 0, total_matched |-> 0,
                     total_misc |-> 0, total_bytes |-> 0, all_manifest_rows |-> <<>>,
                     volume_json |-> <<>>, written |-> <<>>, raised |-> ""]
    /\ dry_run \in BOOLEAN
    /\ entries = MainEntries
    /\ text = <<>> /\ body = <<>> /\ body_offset = 0 /\ body_end = 0
    /\ IdleBoundaries /\ IdleMatch /\ IdleNoise /\ IdleIssue /\ IdleOutputs
    /\ san = <<>> /\ api = <<>> /\ IdleOcr

\* the issue the loop is at, and whether --volume leaves it out
InLoop == main # <<>> /\ main.pc = "loop" /\ main.todo # <<>>
Current == Head(main.todo)
Filtered == main.volume # 0 /\ Current.vol # main.volume
NextIssue == [main EXCEPT !.todo = Tail(@), !.key = @ + 1]

idle_in_main == <<found, boundaries, cleaned, noise, san, api, limiter, ocr, dry_run, entries>>

MainSkipVolume ==
    /\ InLoop /\ Filtered
    /\ main' = NextIssue
    /\ UNCHANGED <<pc, text, body, body_offset, body_end, strict_found, loose_found, issue,
                   files, dirs, log, idle_in_main>>

MainNoMapping ==
    /\ InLoop /\ ~Filtered /\ Current.source = "unmapped"
    /\ main' = NextIssue
    /\ log' = Append(log, <<"WARNING: No file mapping", Current.vol, main.key>>)
    /\ UNCHANGED <<pc, text, body, body_offset, body_end, strict_found, loose_found, issue,
                   files, dirs, idle_in_main>>

\* the source file does not exist: CLEAN_DIR.iterdir() raises when CLEAN_DIR
\* is not there
MainNoSource ==
    /\ InLoop /\ ~Filtered /\ Current.source = "missing"
    /\ IF main.clean_dir
       THEN /\ main' = NextIssue
            /\ log' = Append(log, <<"WARNING: Source file not found", Current.vol, main.key>>)
       ELSE /\ main' = [main EXCEPT !.pc = "raised", !.raised = "FileNotFoundError"]
            /\ log' = log
    /\ UNCHANGED <<pc, text, body, body_offset, body_end, strict_found, loose_found, issue,
                   files, dirs, idle_in_main>>

MainProcess ==
    /\ InLoop /\ ~Filtered /\ Current.source = "present"
    /\ text' = Current.text
    /\ issue' = extract_issue_outputs(extract_issue(Current.text, entries), Current.text, dry_run)
    /\ files' = WriteAll(files, <<Current.vol, main.key>>, issue'.written)
    /\ dirs' = IF issue'.made_dir THEN dirs \cup {<<Current.vol>>, <<Current.vol, main.key>>}
               ELSE dirs
    /\ log' = (Append(log, <<"Processing", Current.vol, main.key>>) \o issue'.printed)
               \o <<<<"Entries matched", issue'.matched>>,
                    <<"Coverage", issue'.total_bytes - issue'.misc_bytes, issue'.total_bytes>>,
                    <<"Misc bytes", issue'.misc_bytes>>>>
    /\ main' = [NextIssue EXCEPT
                   !.issues_processed = @ + 1,
                   !.total_matched = @ + issue'.matched,
                   !.total_misc = @ + issue'.misc_bytes,
                   !.total_bytes = @ + issue'.total_bytes,
                   !.all_manifest_rows = @ \o
                       List([r \in 1..Len(issue'.manifest_rows) |->
                           <<Current.vol, main.key, issue'.manifest_rows[r]>>]),
                   !.volume_json = AddMonth(@, Current.vol, main.key, MonthJson(issue'))]
    /\ body' = issue'.body
    /\ body_offset' = issue'.body_offset
    /\ body_end' = issue'.body_end
    /\ strict_found' = issue'.strict_found
    /\ loose_found' = issue'.loose_found
    /\ UNCHANGED <<pc, idle_in_main>>

MainFinish ==
    /\ main # <<>> /\ main.pc = "loop" /\ main.todo = <<>>
    /\ main' = [main EXCEPT !.pc = "done",
                            !.written = FinalWrites(main.volume_json, main.all_manifest_rows,
                                                    dry_run)]
    /\ dirs' = IF dry_run THEN dirs
               ELSE dirs \cup {<<main.volume_json[i].volume>> : i \in 1..Len(main.volume_json)}
    /\ log' = log \o <<<<"Issues processed", main.issues_processed>>,
                        <<"Total entries matched", main.total_matched>>,
                        <<"Overall coverage", main.total_bytes - main.total_misc,
                          main.total_bytes>>,
                        <<"Total misc bytes", main.total_misc>>>>
    /\ UNCHANGED <<pc, text, body, body_offset, body_end, strict_found, loose_found, issue,
                   files, idle_in_main>>

NextMain == MainSkipVolume \/ MainNoMapping \/ MainNoSource \/ MainProcess \/ MainFinish

SpecMain == InitMain /\ [][NextMain]_vars

(***************************************************************************)
(* The OCR cleanup (ocr_cleanup.py, ocr_cleanup_local.py, reset_failed.py):*)
(* runs of main over the raw files, sharing progress.json.  Whether        *)
(* process_file succeeds on a file is chosen by the environment.           *)
(***************************************************************************)
\* the raw files as gather_files lists them (sorted), by their rel_key
RawFiles == <<"vol45/a.txt", "vol45/b.txt", "vol46/a.txt">>
VolumeOf(rel_key) == IF rel_key = "vol46/a.txt" THEN "vol46" ELSE "vol45"
\* --volume: none, a volume with raw files, a volume without
Volumes == {"", "vol45", "vol47"}
Limits == {0, 1}
Errors == {"Connection error", "Chunk too large"}

Progress(completed, failed) == [completed |-> completed, failed |-> failed]
ProgressFile(exists, progress) == [exists |-> exists, progress |-> progress]

\* load_progress
load_progress(file) == IF file.exists THEN file.progress ELSE Progress(<<>>, <<>>)

\* the dict progress["failed"], kept as its items in insertion order
Keys(d) == {d[i][1] : i \in 1..Len(d)}
Pop(d, key) == SelectSeq(d, LAMBDA item : item[1] # key)
Put(d, key, value) ==
    IF key \in Keys(d)
    THEN List([i \in 1..Len(d) |-> IF d[i][1] = key THEN <<key, value>> ELSE d[i]])
    ELSE Append(d, <<key, value>>)

gather_files(volume_filter) ==
    SelectSeq(RawFiles, LAMBDA k : volume_filter = "" \/ VolumeOf(k) = volume_filter)

\* a faulty variant: the files already completed are kept
NotCompletedUnfiltered(all_pairs, completed_set) == all_pairs

\* pairs = [... if str(r.relative_to(RAW_DIR)) not in completed_set]
NotCompleted(all_pairs, completed_set) ==
    SelectSeq(all_pairs, LAMBDA k : k \notin completed_set)

\* if args.limit: pairs = pairs[:args.limit]
Limited(pairs, limit) == IF limit # 0 THEN SubSeq(pairs, 1, Min({limit, Len(pairs)})) ELSE pairs

\* a faulty variant: the key stays in progress["failed"]
SucceededKeepFailed(progress, rel_key) ==
    Progress(Append(progress.completed, rel_key), progress.failed)

\* the two outcomes of a file in the loop of main
Succeeded(progress, rel_key) ==
    Progress(Append(progress.completed, rel_key), Pop(progress.failed, rel_key))
Failed(progress, rel_key, e) ==
    Progress(progress.completed, Put(progress.failed, rel_key, e))

\* progress.json as earlier use left it; the last two hold a key twice
InitialProgressFiles ==
    {ProgressFile(FALSE, Progress(<<>>, <<>>)),
     ProgressFile(TRUE, Progress(<<"vol45/a.txt">>, << <<"vol45/b.txt", "Connection error">> >>)),
     ProgressFile(TRUE, Progress(<<"vol45/a.txt", "vol45/a.txt">>, <<>>)),
     ProgressFile(TRUE, Progress(<<"vol45/b.txt">>, << <<"vol45/b.txt", "Chunk too large">> >>))}

NoArgs == [limit |-> 0, volume |-> "", dry_run |-> FALSE, reset_progress |-> FALSE]

InitOcr ==
    /\ pc = "ocr"
    /\ \E file \in InitialProgressFiles :
          ocr = [pc |-> "shell", runs |-> 0, file |-> file, first |-> file,
                 args |-> NoArgs, start |-> file, loaded |-> load_progress(file),
                 progress |-> load_progress(file), pairs |-> <<>>, passed |-> <<>>,
                 before |-> load_progress(file), outcome |-> <<>>,
                 succeeded |-> 0, failed |-> 0, cleaned |-> <<>>, reset |-> FALSE]
    /\ main = <<>> /\ san = <<>> /\ api = <<>> /\ limiter = <<>>
    /\ text = <<>> /\ entries = <<>> /\ body = <<>> /\ body_offset = 0 /\ body_end = 0
    /\ IdleBoundaries /\ IdleMatch /\ IdleNoise /\ IdleIssue /\ IdleOutputs
    /\ dry_run = FALSE

idle_in_ocr == <<pc, text, entries, body, body_offset, body_end, found, boundaries, strict_found, loose_found, cleaned, noise, issue, dry_run, files, dirs, log, main, san, api, limiter>>

\* main up to its loop: --reset-progress, load_progress, gather_files, the
\* filter on completed_set, --limit and --dry-run
OcrMainStart ==
    /\ ocr # <<>> /\ ocr.pc = "shell" /\ ocr.runs < MaxRuns
    /\ \E limit \in Limits, volume \in Volumes, dry \in BOOLEAN, reset_progress \in BOOLEAN :
          LET file == IF reset_progress /\ ocr.file.exists
                      THEN ProgressFile(FALSE, Progress(<<>>, <<>>)) ELSE ocr.file
              progress == load_progress(file)
              completed_set == {progress.completed[i] : i \in 1..Len(progress.completed)}
              all_pairs == gather_files(volume)
              pairs == Limited(NotCompleted(all_pairs, completed_set), limit)
          IN  ocr' = [ocr EXCEPT
                  !.runs = @ + 1,
                  !.args = [limit |-> limit, volume |-> volume, dry_run |-> dry,
                            reset_progress |-> reset_progress],
                  !.start = ocr.file, !.file = file,
                  !.loaded = progress, !.progress = progress, !.before = progress,
                  !.outcome = <<>>, !.passed = <<>>, !.succeeded = 0, !.failed = 0,
                  !.reset = @ \/ (reset_progress /\ ocr.file.exists),
                  !.pairs = IF all_pairs = <<>> \/ dry THEN <<>> ELSE pairs,
                  !.pc = IF all_pairs = <<>> \/ dry THEN "shell" ELSE "loop"]
    /\ UNCHANGED idle_in_ocr

\* process_file returns True: the key joins progress["completed"], leaves
\* progress["failed"], and the progress is saved
OcrFileSucceeds ==
    /\ ocr # <<>> /\ ocr.pc = "loop" /\ ocr.pairs # <<>>
    /\ LET rel_key == Head(ocr.pairs)
           progress == Succeeded(ocr.progress, rel_key)
       IN  ocr' = [ocr EXCEPT !.before = ocr.progress, !.outcome = <<rel_key, "ok">>,
                              !.progress = progress, !.file = ProgressFile(TRUE, progress),
                              !.passed = Append(@, rel_key), !.cleaned = Append(@, rel_key),
                              !.succeeded = @ + 1, !.pairs = Tail(@)]
    /\ UNCHANGED idle_in_ocr

\* process_file raises: the key and the error go to progress["failed"], and
\* the progress is saved
OcrFileFails ==
    /\ ocr # <<>> /\ ocr.pc = "loop" /\ ocr.pairs # <<>>
    /\ \E e \in Errors :
          LET rel_key == Head(ocr.pairs)
              progress == Failed(ocr.progress, rel_key, e)
          IN  ocr' = [ocr EXCEPT !.before = ocr.progress, !.outcome = <<rel_key, e>>,
                                 !.progress = progress, !.file = ProgressFile(TRUE, progress),
                                 !.passed = Append(@, rel_key),
                                 !.failed = @ + 1, !.pairs = Tail(@)]
    /\ UNCHANGED idle_in_ocr

\* the end of the loop and the summary
OcrMainFinish ==
    /\ ocr # <<>> /\ ocr.pc = "loop" /\ ocr.pairs = <<>>
    /\ ocr' = [ocr EXCEPT !.pc = "shell"]
    /\ UNCHANGED idle_in_ocr

\* reset_failed.py, answered with yes
ResetFailed ==
    /\ ocr # <<>> /\ ocr.pc = "shell"
    /\ ocr.file.exists /\ ocr.file.progress.failed # <<>>
    /\ ocr' = [ocr EXCEPT !.file = ProgressFile(TRUE, Progress(ocr.file.progress.completed, <<>>))]
    /\ UNCHANGED idle_in_ocr

NextOcr == OcrMainStart \/ OcrFileSucceeds \/ OcrFileFails \/ OcrMainFinish \/ ResetFailed

SpecOcr == InitOcr /\ [][NextOcr]_vars

(***************************************************************************)
(* Operators used to state the properties.                                 *)
(***************************************************************************)
\* the title, from its j-th symbol on, occurs in b at index i: letters are
\* compared up to case, a space of the title stands for one or more
\* whitespace symbols of b
RECURSIVE Occurs(_, _, _, _)
Occurs(title, j, b, i) ==
    IF j > Len(title) THEN TRUE
    ELSE IF title[j] = SP
    THEN \E n \in 1..(Len(b) - i) :
            /\ \A m \in 1..n : b[i + m] \in Whitespace
            /\ Occurs(title, j + 1, b, i + n)
    ELSE /\ i < Len(b)
         /\ Fold(b[i + 1]) = Fold(title[j])
         /\ Occurs(title, j + 1, b, i + 1)

Occurrences(title, b) == {i \in 0..Len(b) : Occurs(title, 1, b, i)}

\* the offsets a list of <<offset, entry>> reports for an entry
OffsetsOf(f, entry) == {f[j][1] : j \in {m \in 1..Len(f) : f[m][2] = entry}}

\* the offsets a list of <<offset, entry>> reports for a title
OffsetsOfTitle(f, title) == {f[j][1] : j \in {m \in 1..Len(f) : f[m][2].title = title}}

\* how many times x is an element of the sequence s
Count(s, x) == Cardinality({i \in 1..Len(s) : s[i] = x})

(***************************************************************************)
(* Properties of the Boundary Resolver (SpecBoundaries).                   *)
(***************************************************************************)
\* C1: _boundaries_from_found returns exactly one span per found match (none
\* for an empty input), in non-decreasing start order; each span's end is the
\* start of the span that follows it and the last span's end is body_end.
C1_BoundariesContiguous ==
    pc = "done" =>
        /\ Len(boundaries) = Len(found)
        /\ \A j \in 1..Len(found) :
              Count(List([i \in 1..Len(boundaries) |-> <<boundaries[i][1], boundaries[i][3]>>]),
                    found[j]) = Count(found, found[j])
        /\ \A i \in 1..Len(boundaries) - 1 :
              /\ boundaries[i][1] <= boundaries[i + 1][1]
              /\ boundaries[i][2] = boundaries[i + 1][1]
        /\ boundaries # <<>> => boundaries[Len(boundaries)][2] = body_end

\* three matches handed over out of offset order, two of them at one offset
C1_Witness ==
    /\ pc = "done"
    /\ Len(found) = 3
    /\ found[1][1] > found[2][1]
    /\ found[2][1] = found[3][1]
    /\ Len(boundaries) = 3

(***************************************************************************)
(* Properties of the Title Matcher (SpecMatch).                            *)
(***************************************************************************)
\* C4: if the strict strategy reports an offset for an entry, the loose
\* strategy reports one for the same entry, and it is at most the strict one.
C4_StrictImpliesLoose ==
    pc = "done" =>
        \A i \in 1..Len(strict_found) :
            \E j \in 1..Len(loose_found) :
                /\ loose_found[j][2] = strict_found[i][2]
                /\ loose_found[j][1] <= strict_found[i][1]

\* a title matched at a line start after an earlier occurrence inside a
\* line, in a body that is not at offset 0
C4_Witness ==
    /\ pc = "done"
    /\ body_offset > 0
    /\ \E i \in 1..Len(strict_found), j \in 1..Len(loose_found) :
          /\ loose_found[j][2] = strict_found[i][2]
          /\ loose_found[j][1] < strict_found[i][1]

\* C7: the loose offset of an entry is body_offset plus the smallest index
\* of the body at which its title occurs (case-insensitively, each space of
\* the title standing for one or more whitespace characters); no offset is
\* reported exactly when the title occurs nowhere.
C7_LooseFirstOccurrence ==
    pc = "done" =>
        \A k \in 1..Len(entries) :
            LET occ == Occurrences(entries[k].title, body)
            IN IF occ = {} THEN OffsetsOf(loose_found, entries[k]) = {}
               ELSE OffsetsOf(loose_found, entries[k]) = {body_offset + Min(occ)}

\* a title with a space that occurs twice in a body that is not at offset 0,
\* the first time with a newline where the title has its space
C7_Witness ==
    /\ pc = "done"
    /\ body_offset > 0
    /\ \E k \in 1..Len(entries) :
          LET occ == Occurrences(entries[k].title, body)
          IN /\ Cardinality(occ) >= 2
             /\ OffsetsOf(loose_found, entries[k]) # {}
             /\ Len(entries[k].title) = 3
             /\ body[Min(occ) + 2] = NL

\* C8: a strict offset p (relative to the body) is reported only if the title
\* occurs at p and every character between the nearest preceding newline (or
\* the start of the body) and p is whitespace; p is the first character of
\* the title's first word, not the newline or the leading whitespace.
C8_StrictAtLineStart ==
    pc = "done" =>
        \A i \in 1..Len(strict_found) :
            LET p == strict_found[i][1] - body_offset
                title == strict_found[i][2].title
            IN /\ p \in 0..Len(body) - 1
               /\ Occurs(title, 1, body, p)
               /\ Fold(body[p + 1]) = Fold(title[1])
               /\ body[p + 1] \notin Whitespace
               /\ \A j \in 0..p - 1 :
                     (\A m \in j..p - 1 : body[m + 1] # NL) => body[j + 1] \in Whitespace

\* a strict match behind a newline and a leading space
C8_Witness ==
    /\ pc = "done"
    /\ \E i \in 1..Len(strict_found) :
          LET p == strict_found[i][1] - body_offset
          IN /\ p >= 2
             /\ body[p] = SP
             /\ body[p - 1] = NL

(***************************************************************************)
(* Properties of extract_issue (SpecIssue, SpecOrder, SpecHeaders).        *)
(***************************************************************************)
\* the covered intervals that hold offset o, and the gap slices that hold it
CoveredAt(o) ==
    {i \in 1..Len(issue.covered_intervals) :
        issue.covered_intervals[i][1] <= o /\ o < issue.covered_intervals[i][2]}
GapsAt(o) == {i \in 1..Len(issue.gaps) : issue.gaps[i][1] <= o /\ o < issue.gaps[i][2]}

\* the symbols of s that are not whitespace, in order
RECURSIVE Ink(_)
Ink(s) == IF s = <<>> THEN <<>>
          ELSE (IF s[1] \in Whitespace THEN <<>> ELSE <<s[1]>>) \o Ink(Tail(s))

\* C2: every offset of the issue text lies in exactly one of the front
\* matter (which splits without loss into the TOC text and the leftover
\* handed to Miscellany), the body and the ads region; every offset of the
\* body lies in some covered interval (strict or loose) or in exactly one
\* Miscellany gap slice, never both and never neither.
C2_Conservation ==
    pc = "done" =>
        /\ 0 <= body_offset /\ body_offset <= body_end /\ body_end <= Len(text)
        /\ issue.front_matter = Slice(text, 0, body_offset)
        /\ body = Slice(text, body_offset, body_end)
        /\ issue.ads_text = Strip(Slice(text, body_end, Len(text)))
        /\ \A c \in Symbols \ Whitespace :
              Count(issue.front_matter, c)
                 = Count(issue.toc_text, c) + Count(issue.remaining_fm, c)
        /\ Strip(issue.remaining_fm) # <<>> =>
              issue.misc_parts[1] = Strip(issue.remaining_fm)
        /\ \A i \in 1..Len(issue.covered_intervals) :
              /\ body_offset <= issue.covered_intervals[i][1]
              /\ issue.covered_intervals[i][2] <= body_end
        /\ \A i \in 1..Len(issue.gaps) :
              /\ body_offset <= issue.gaps[i][1]
              /\ issue.gaps[i][2] <= body_end
              /\ Ink(Slice(text, issue.gaps[i][1], issue.gaps[i][2])) # <<>> =>
                    \E m \in 1..Len(issue.misc_parts) :
                        issue.misc_parts[m] = Strip(Slice(text, issue.gaps[i][1], issue.gaps[i][2]))
        /\ \A o \in body_offset..body_end - 1 :
              \/ CoveredAt(o) # {} /\ GapsAt(o) = {}
              \/ CoveredAt(o) = {} /\ Cardinality(GapsAt(o)) = 1

\* an issue with front matter holding a TOC, an ads region, a gap before the
\* first entry and an entry whose strict and loose spans differ
C2_Witness ==
    /\ pc = "done"
    /\ issue.toc_text # <<>> /\ issue.remaining_fm # <<>>
    /\ issue.ads_text # <<>>
    /\ issue.gaps # <<>>
    /\ \E i \in 1..Len(issue.entries) :
          /\ issue.entries[i].strict_match.matched
          /\ issue.entries[i].loose_match.matched
          /\ issue.entries[i].loose_match.position < issue.entries[i].strict_match.position

\* C6: strict_loose_identical of an entry record is true if and only if the
\* record has both a strict and a loose result and their cleaned contents
\* are equal; it is false whenever either result is absent.
C6_IdenticalFlag ==
    pc = "done" =>
        \A i \in 1..Len(issue.entries) :
            LET e == issue.entries[i]
            IN IF e.strict_match.matched /\ e.loose_match.matched
               THEN e.strict_loose_identical
                       = (e.strict_match.content = e.loose_match.content)
               ELSE e.strict_loose_identical = FALSE

\* one issue with a record whose two results differ, and a record with only
\* a loose result
C6_Witness ==
    /\ pc = "done"
    /\ \E i \in 1..Len(issue.entries) :
          /\ issue.entries[i].strict_match.matched
          /\ issue.entries[i].loose_match.matched
          /\ issue.entries[i].strict_match.content # issue.entries[i].loose_match.content
    /\ \E i \in 1..Len(issue.entries) :
          /\ ~issue.entries[i].strict_match.matched
          /\ issue.entries[i].loose_match.matched

\* C9: two TOC entries with the same title are reported at the same offset
\* under loose search and likewise under strict search; the second is not
\* matched to the second occurrence.
C9_DuplicateTitlesCollapse ==
    pc = "done" =>
        \A k, l \in 1..Len(entries) :
            entries[k].title = entries[l].title =>
                /\ OffsetsOf(loose_found, entries[k]) = OffsetsOf(loose_found, entries[l])
                /\ OffsetsOf(strict_found, entries[k]) = OffsetsOf(strict_found, entries[l])
                /\ Cardinality(OffsetsOf(loose_found, entries[k])) <= 1
                /\ Cardinality(OffsetsOf(strict_found, entries[k])) <= 1

\* a TOC that lists one title twice, for different authors, in an issue whose
\* body holds the title at the start of two lines
C9_Witness ==
    /\ pc = "done"
    /\ Len(entries) = 2
    /\ entries[1].title = entries[2].title
    /\ entries[1].author # entries[2].author
    /\ Len(strict_found) = 2 /\ Len(loose_found) = 2
    /\ \E p, q \in Occurrences(entries[1].title, body) :
          /\ p < q
          /\ p = 0 \/ body[p] = NL
          /\ body[q] = NL

\* the title the entry numbered i carries
NumberedTitle(i) == issue.entries[i].title

\* C5: the entry numbers 1, 2, 3, ... follow the strict span order
\* (ascending strict offset) when strict matched an entry and the loose span
\* order when it matched none; a title matched only under loose is numbered
\* after every title of the base ordering, in ascending loose offset order.
C5_NumberingOrder ==
    pc = "done" =>
        LET base == IF strict_found # <<>> THEN strict_found ELSE loose_found
            n == Len(issue.entries)
        IN /\ \A i \in 1..n : issue.entries[i].index = i
           /\ n >= Len(base)
           /\ \A j \in 1..Len(base) :
                 Cardinality({i \in 1..Len(base) : NumberedTitle(i) = base[j][2].title})
                    = Cardinality({i \in 1..Len(base) : base[i][2].title = base[j][2].title})
           /\ \A i, j \in 1..Len(base) :
                 i < j => Min(OffsetsOfTitle(base, NumberedTitle(i)))
                             <= Min(OffsetsOfTitle(base, NumberedTitle(j)))
           /\ {NumberedTitle(i) : i \in Len(base) + 1..n}
                 = {loose_found[j][2].title : j \in 1..Len(loose_found)}
                      \ {base[j][2].title : j \in 1..Len(base)}
           /\ \A i, j \in Len(base) + 1..n :
                 i < j => /\ NumberedTitle(i) # NumberedTitle(j)
                          /\ Min(OffsetsOfTitle(loose_found, NumberedTitle(i)))
                                <= Min(OffsetsOfTitle(loose_found, NumberedTitle(j)))

\* strict matched an entry; two titles matched only under loose, the one
\* listed later in the TOC at the smaller offset
C5_Witness ==
    /\ pc = "done"
    /\ strict_found # <<>>
    /\ \E k, l \in 1..Len(entries) :
          /\ k < l
          /\ OffsetsOf(strict_found, entries[k]) = {}
          /\ OffsetsOf(strict_found, entries[l]) = {}
          /\ OffsetsOf(loose_found, entries[k]) # {}
          /\ OffsetsOf(loose_found, entries[l]) # {}
          /\ Min(OffsetsOf(loose_found, entries[l])) < Min(OffsetsOf(loose_found, entries[k]))

\* frag is a part of the Miscellany text after the divider
AfterDivider(frag) ==
    \E d \in 1..Len(issue.misc_parts) :
        /\ issue.misc_parts[d] = STRIPPED_NOISE
        /\ \E m \in d + 1..Len(issue.misc_parts) : issue.misc_parts[m] = frag

\* C3: every fragment strip_running_noise removes from an entry extraction,
\* from the strict span or from the loose span, is a part of the Miscellany
\* text after the '--- STRIPPED NOISE ---' divider.
C3_StrippedNoiseInMiscellany ==
    pc = "done" =>
        \A i \in 1..Len(issue.entries) :
            LET e == issue.entries[i]
            IN /\ e.strict_match.matched =>
                     \A j \in 1..Len(e.strict_match.noise_frags) :
                         AfterDivider(e.strict_match.noise_frags[j])
               /\ e.loose_match.matched =>
                     \A j \in 1..Len(e.loose_match.noise_frags) :
                         AfterDivider(e.loose_match.noise_frags[j])

(***************************************************************************)
(* Properties of the Noise Stripper (SpecNoise).                           *)
(***************************************************************************)
\* C10: if strip_running_noise(t) returns (c, fragments), then
\* strip_running_noise(c) returns (c, []): after the second application the
\* cleaned text is its input and no fragment was removed.
C10_StripIdempotent ==
    pc = 2 => cleaned = text /\ noise = <<>>

(***************************************************************************)
(* Properties of the Miscellany noise section (SpecHeaders).               *)
(***************************************************************************)
\* the indices of the Miscellany parts that are the divider
Dividers == {d \in 1..Len(issue.misc_parts) : issue.misc_parts[d] = STRIPPED_NOISE}

\* the indices of the Miscellany parts that follow a divider
NoiseSection == {m \in 1..Len(issue.misc_parts) : \E d \in Dividers : d < m}

\* the fragments strip_running_noise removed from the extractions of the issue
RemovedFragments ==
    UNION {{issue.entries[i].strict_match.noise_frags[j] :
               j \in 1..(IF issue.entries[i].strict_match.matched
                         THEN Len(issue.entries[i].strict_match.noise_frags) ELSE 0)}
           \cup {issue.entries[i].loose_match.noise_frags[j] :
               j \in 1..(IF issue.entries[i].loose_match.matched
                         THEN Len(issue.entries[i].loose_match.noise_frags) ELSE 0)} :
           i \in 1..Len(issue.entries)}

WrittenNames == {f[1][2] : f \in {g \in files : g[1][1] = ISSUE_DIR}}
ContentOf(name) == {f[2] : f \in {g \in files : g[1] = <<ISSUE_DIR, name>>}}
Unmatched == {k \in 1..Len(entries) : Occurrences(entries[k].title, body) = {}}

\* C12: a TOC entry whose title matches under neither strategy has no entry
\* record, no entry file and no manifest row; the issue still has its TOC,
\* ads and Miscellany output (record fields, files and manifest rows); when
\* no entry matches at all, the trimmed body is a Miscellany part.
C12_UnmatchedDropped ==
    pc = "done" =>
        /\ \A k \in Unmatched :
              /\ OffsetsOf(strict_found, entries[k]) = {}
              /\ OffsetsOf(loose_found, entries[k]) = {}
              /\ \A i \in 1..Len(issue.entries) : issue.entries[i].title # entries[k].title
              /\ \A n \in WrittenNames \ {SectionFile(sec) : sec \in {"TOC", "ADS", "MISC"}} :
                    \E i \in 1..Len(issue.entries) :
                        /\ issue.entries[i].title # entries[k].title
                        /\ \/ /\ issue.entries[i].strict_match.matched
                              /\ issue.entries[i].strict_match.file = n
                           \/ /\ issue.entries[i].loose_match.matched
                              /\ issue.entries[i].loose_match.file = n
              /\ \A r \in 1..Len(issue.manifest_rows) :
                    issue.manifest_rows[r].strategy # "" =>
                        issue.manifest_rows[r].title # entries[k].title
        /\ issue.matched = Len(issue.entries)
        /\ issue.toc_text = extract_toc_from_front_matter(issue.front_matter)[1]
        /\ issue.ads_text = Strip(Slice(text, body_end, Len(text)))
        /\ \A sec \in {<<"TOC", issue.toc_text>>, <<"ADS", issue.ads_text>>,
                        <<"MISC", Join(issue.misc_parts)>>} :
              IF sec[2] # <<>>
              THEN /\ ContentOf(SectionFile(sec[1])) = {sec[2]}
                   /\ Count(issue.manifest_rows,
                            ManifestRow(SectionFile(sec[1]), SectionType(sec[1]), sec[1], "", "")) = 1
              ELSE ContentOf(SectionFile(sec[1])) = {}
        /\ (Unmatched = 1..Len(entries) /\ Strip(body) # <<>>) =>
              /\ issue.entries = <<>>
              /\ \E m \in 1..Len(issue.misc_parts) : issue.misc_parts[m] = Strip(body)

\* a TOC of two entries of which one is matched and one is not, in an issue
\* with a TOC, an ads region and Miscellany text
C12_Witness ==
    /\ pc = "done"
    /\ Len(entries) = 2
    /\ Cardinality(Unmatched) = 1
    /\ Len(issue.entries) = 1
    /\ issue.toc_text # <<>> /\ issue.ads_text # <<>> /\ issue.misc_parts # <<>>
    /\ Cardinality(WrittenNames) >= 4

\* C13: for every TOC entry that is matched under neither the strict nor the
\* loose strategy, the lines printed by extract_issue hold a 'No match'
\* warning for that entry.
C13_NoMatchWarning ==
    pc = "done" =>
        \A k \in 1..Len(entries) :
            (OffsetsOf(strict_found, entries[k]) = {} /\ OffsetsOf(loose_found, entries[k]) = {})
                => Count(log, <<"WARNING: No match", entries[k].title>>) >= 1

\* C17: in a run that is not a dry run, the manifest rows returned by
\* extract_issue and the files written for the issue correspond one to one:
\* every row names a file that was written, and every written file has
\* exactly one row.
C17_RowsMatchFiles ==
    (pc = "done" /\ ~dry_run) =>
        /\ \A r \in 1..Len(issue.manifest_rows) :
              issue.manifest_rows[r].file \in WrittenNames
        /\ \A n \in WrittenNames :
              Cardinality({r \in 1..Len(issue.manifest_rows) :
                              issue.manifest_rows[r].file = n}) = 1

\* C14: in main, the step taken for an issue that has no file mapping or
\* whose source file does not exist prints one warning, leaves the counters,
\* the manifest rows and the per-volume JSON as they were, writes nothing,
\* and goes on to the next issue; the run is not aborted.
C14_MissingInputSkipped ==
    [][(InLoop /\ ~Filtered /\ Current.source \in {"unmapped", "missing"}) =>
          /\ main' = NextIssue
          /\ Len(log') = Len(log) + 1
          /\ log'[Len(log')] \in {<<"WARNING: No file mapping", Current.vol, main.key>>,
                                  <<"WARNING: Source file not found", Current.vol, main.key>>}
          /\ files' = files /\ dirs' = dirs]_vars

\* what extract_issue returns for the issue just processed when it is run
\* with the other value of dry_run
OtherRun == extract_issue_outputs(extract_issue(text, entries), text, ~dry_run)

\* C19: with --dry-run no directory is created and no file is written, by
\* extract_issue (entry files, TOC.txt, ADS.txt, MISC.txt) or by main
\* (per-volume JSON, flagged_for_review.json, manifest.csv); the stats, the
\* entry records, the manifest rows and the month record that extract_issue
\* returns are those of a real run on the same input.
C19_DryRunNoEffect ==
    (main # <<>> /\ dry_run) =>
        /\ files = {} /\ dirs = {}
        /\ main.written = <<>>
        /\ issue # <<>> =>
              /\ issue.written = <<>> /\ ~issue.made_dir
              /\ issue.matched = OtherRun.matched
              /\ issue.total_bytes = OtherRun.total_bytes
              /\ issue.misc_bytes = OtherRun.misc_bytes
              /\ issue.entries = OtherRun.entries
              /\ issue.manifest_rows = OtherRun.manifest_rows
              /\ MonthJson(issue) = MonthJson(OtherRun)
              /\ OtherRun.made_dir
              /\ Len(OtherRun.written) >= 1

\* the end of a dry run in which issues were processed, so that a real run
\* would have written entry files, a per-volume JSON, a flagged list and
\* the manifest
C19_Witness ==
    /\ main # <<>> /\ dry_run /\ main.pc = "done"
    /\ main.issues_processed >= 1
    /\ main.all_manifest_rows # <<>>
    /\ \E i \in 1..Len(main.volume_json) : Flagged(main.volume_json[i].months) # <<>>
    /\ \E i \in 1..Len(issue.entries) : issue.entries[i].strict_match.content # <<>>
    /\ FinalWrites(main.volume_json, main.all_manifest_rows, FALSE) # <<>>

\* the indexes (from 1) of the text that hold the marker, and the index of
\* the last symbol of the line that index m lies in
MarkerAt == {i \in 1..Len(text) : text[i] = MAGAZINE_CIRCULATION}
LineEnd(m) == Min({j \in m..Len(text) : j = Len(text) \/ text[j + 1] = NL})

\* C15: when the text holds 'MAGAZINE CIRCULATION' the front matter is the
\* prefix of the text that ends with the line of the first marker, and the
\* body is everything after it; when it does not, the front matter is empty
\* and the body is the whole text (split_front_matter returns, with a
\* diagnostic printed).
C15_FrontMatterSplit ==
    pc = "done" =>
        /\ issue.front_matter \o body = text
        /\ IF MarkerAt # {}
           THEN /\ issue.front_matter = SubSeq(text, 1, LineEnd(Min(MarkerAt)))
                /\ body = SubSeq(text, LineEnd(Min(MarkerAt)) + 1, Len(text))
                /\ log = <<>>
           ELSE /\ issue.front_matter = <<>>
                /\ body = text
                /\ log = <<<<"WARNING: MAGAZINE CIRCULATION marker not found">>>>

\* a text with the marker inside its first line, more text on that line, and
\* a second marker on a later line
C15_Witness ==
    /\ pc = "done"
    /\ Cardinality(MarkerAt) = 2
    /\ Min(MarkerAt) > 1
    /\ LineEnd(Min(MarkerAt)) > Min(MarkerAt)
    /\ Max(MarkerAt) > LineEnd(Min(MarkerAt))
    /\ Len(issue.front_matter) = LineEnd(Min(MarkerAt))

\* the character index at which symbol index i of the text begins, the
\* (symbol) indexes at which a marker begins in the last 30% of the text,
\* and the indexes of the blank lines that end at or before index m
CharAt(i) == CharLen(Slice(text, 0, i))
MarkersInTail ==
    {i \in 0..Len(text) - 1 :
        /\ text[i + 1] \in {DESERET_NEWS_PRESS, MORMON_HANDICRAFT}
        /\ CharAt(i) >= IntSevenTenths(CharLen(text))}
BlankLinesBefore(m) == {i \in 0..m - 2 : text[i + 1] = NL /\ text[i + 2] = NL}
AdsStart ==
    LET m == Min(MarkersInTail)
    IN IF BlankLinesBefore(m) # {} /\ CharAt(m) - CharAt(Max(BlankLinesBefore(m))) < AdWalkBack
       THEN Max(BlankLinesBefore(m)) ELSE m

\* C16: when a marker begins at or after int(0.7 * len(body)), the ad
\* section starts at s, the last blank line before the earliest such marker
\* m if there is one and m - s < 500, and at m otherwise; the body returned
\* is body[:s] and ads_start_offset is body_offset + s.  When no marker
\* begins in the last 30%, the body is returned unchanged, the ads text is
\* empty.
C16_AdsSectionStart ==
    pc = "done" =>
        IF MarkersInTail # {}
        THEN /\ body = Slice(text, 0, AdsStart)
             /\ issue.ads_start = body_offset + AdsStart
             /\ issue.ads_text = Strip(Slice(text, AdsStart, Len(text)))
             /\ issue.ads_text # <<>>
        ELSE /\ body = text
             /\ issue.ads_text = <<>>
             /\ issue.ads_start = body_offset + Len(text)

\* a marker 500 characters or more behind the last blank line, in a body
\* that is not at offset 0: the section starts at the marker
C16_Witness ==
    /\ pc = "done"
    /\ MarkersInTail # {}
    /\ BlankLinesBefore(Min(MarkersInTail)) # {}
    /\ CharAt(Min(MarkersInTail)) - CharAt(Max(BlankLinesBefore(Min(MarkersInTail)))) >= AdWalkBack
    /\ Len(body) = Min(MarkersInTail)
    /\ body_offset > 0

\* C18: the string sanitize_filename returns holds none of the reserved
\* characters, has no two underscores in a row, neither starts nor ends
\* with an underscore, and is at most max_len characters long.
C18_SanitizedName ==
    pc = "done" =>
        /\ \A i \in 1..Len(san.result) : san.result[i] \notin Reserved
        /\ \A i \in 1..Len(san.result) - 1 :
              ~(san.result[i] = "_" /\ san.result[i + 1] = "_")
        /\ san.result # <<>> => (san.result[1] # "_" /\ san.result[Len(san.result)] # "_")
        /\ Len(san.result) <= san.max_len

\* a name with a reserved character between two separators, clipped just
\* behind an underscore
C18_Witness ==
    /\ pc = "done"
    /\ \E i \in 2..Len(san.s) - 1 :
          /\ san.s[i] \in Reserved
          /\ san.s[i - 1] \in Separators /\ san.s[i + 1] \in Separators
    /\ Len(Unclipped(san.s)) > san.max_len
    /\ san.max_len >= 2
    /\ Unclipped(san.s)[san.max_len] = "_"
    /\ Len(san.result) = san.max_len - 1

\* a failure that is transient: an APIError, or a RateLimitError of a
\* request that does not exceed the size limit
Transient(answer) ==
    answer.kind = "APIError" \/ (answer.kind = "RateLimitError" /\ ~answer.size_limit)

RECURSIVE Doubled(_)
Doubled(n) == IF n = 0 THEN INITIAL_BACKOFF ELSE 2 * Doubled(n - 1)

\* C20: call_gpt makes at most MAX_RETRIES attempts; after the i-th attempt,
\* if it failed transiently and is not the last, it has slept
\* INITIAL_BACKOFF * 2^(i-1) and goes on to another attempt; it returns
\* exactly when an attempt succeeds, the first one that does; when the
\* MAX_RETRIES-th attempt fails the error is raised and no value returned.
C20_BoundedRetry ==
    (api # <<>> /\ api.pc # "start") =>
        /\ api.calls = Len(api.history) /\ api.calls <= MAX_RETRIES
        /\ \A i \in 1..Len(api.slept) : api.slept[i] = Doubled(i - 1)
        /\ \A i \in 1..Len(api.history) :
              (Transient(api.history[i]) /\ i < MAX_RETRIES) =>
                  /\ Len(api.slept) >= i
                  /\ i < Len(api.history) \/ api.pc = "attempt"
        /\ api.pc = "returned" <=>
              (api.history # <<>> /\ api.history[Len(api.history)].kind = "ok")
        /\ \A i \in 1..Len(api.history) - 1 : api.history[i].kind # "ok"
        /\ (Len(api.history) = MAX_RETRIES /\ api.history[MAX_RETRIES].kind # "ok") =>
              (api.pc = "raised" /\ api.result = "")

\* C21: call_gpt never retries a hard size-limit failure.  A chunk whose
\* estimated total exceeds MAX_TOKENS_PER_REQUEST is rejected with ValueError
\* before any API attempt and before any rate-limit wait; an attempt that the
\* API refuses for the size of the request is the last one, it raises
\* ValueError, and no sleep follows it.
C21_NoRetryOnSizeLimit ==
    api # <<>> =>
        /\ api.estimated_total > MAX_TOKENS_PER_REQUEST =>
              /\ api.pc \in {"start", "raised"}
              /\ api.calls = 0 /\ api.waited = <<>> /\ api.slept = <<>>
              /\ api.pc = "raised" => api.error = "ValueError"
        /\ \A i \in 1..Len(api.history) :
              api.history[i].size_limit =>
                  /\ i = Len(api.history)
                  /\ api.pc = "raised" /\ api.error = "ValueError"
                  /\ Len(api.slept) = i - 1

\* the limiter made the call wait, the first attempt failed transiently and
\* the second was refused for its size
C21_Witness ==
    /\ api # <<>> /\ api.pc = "raised"
    /\ api.waited # <<>>
    /\ Len(api.history) = 2
    /\ Transient(api.history[1])
    /\ api.history[2].size_limit

(***************************************************************************)
(* Properties of the OCR cleanup (SpecOcr).                                *)
(***************************************************************************)
Elements(s) == {s[i] : i \in 1..Len(s)}
CompletedIn(file) == IF file.exists THEN Elements(file.progress.completed) ELSE {}
FailedOnly(progress) == Keys(progress.failed) \ Elements(progress.completed)
RunOver == ocr # <<>> /\ ocr.pc = "shell" /\ ocr.runs > 0

\* the files a run is to process: those its --volume admits, not yet
\* completed, up to its --limit
InScope(args, progress) ==
    IF args.dry_run THEN {}
    ELSE Elements(Limited(NotCompleted(gather_files(args.volume), Elements(progress.completed)),
                          args.limit))

\* a run passes no file to process_file that the progress it loaded lists as
\* completed, nor, without --reset-progress, one that progress.json listed
NeverAgain ==
    /\ Elements(ocr.passed) \cap Elements(ocr.loaded.completed) = {}
    /\ ~ocr.args.reset_progress => Elements(ocr.passed) \cap CompletedIn(ocr.start) = {}

\* without --reset-progress no file is cleaned twice, and none that was
\* completed at the outset is cleaned at all
CleanedOnce ==
    ~ocr.reset =>
        \A k \in Elements(RawFiles) :
            Count(ocr.cleaned, k) + (IF k \in CompletedIn(ocr.first) THEN 1 ELSE 0) <= 1

WellFormed(progress) ==
    /\ \A k \in Elements(progress.completed) : Count(progress.completed, k) = 1
    /\ Keys(progress.failed) \cap Elements(progress.completed) = {}

\* the files the run set out to process, in order
Planned == Limited(NotCompleted(gather_files(ocr.args.volume), Elements(ocr.loaded.completed)), ocr.args.limit)

\* C28: in a run that loaded a progress whose 'completed' has no duplicate
\* and shares no key with 'failed', after every processed file the saved
\* progress is again of that kind; a success adds the key to 'completed' and
\* removes it from 'failed', a failure records the key with its error in
\* 'failed' and leaves 'completed' as it was (other keys are untouched), and
\* the run goes on with the next file of its list.
C28_ProgressBookkeeping ==
    (ocr # <<>> /\ WellFormed(ocr.loaded) /\ ocr.passed # <<>>) =>
        /\ WellFormed(ocr.progress)
        /\ ocr.pc = "loop" => ocr.file = ProgressFile(TRUE, ocr.progress)
        /\ LET rel_key == ocr.outcome[1]
               others(d) == SelectSeq(d, LAMBDA item : item[1] # rel_key)
           IN  /\ rel_key = ocr.passed[Len(ocr.passed)]
               /\ others(ocr.progress.failed) = others(ocr.before.failed)
               /\ IF ocr.outcome[2] = "ok"
                  THEN /\ ocr.progress.completed = Append(ocr.before.completed, rel_key)
                       /\ rel_key \notin Keys(ocr.progress.failed)
                  ELSE /\ ocr.progress.completed = ocr.before.completed
                       /\ \E i \in 1..Len(ocr.progress.failed) :
                             ocr.progress.failed[i] = <<rel_key, ocr.outcome[2]>>
                       /\ Count(List([i \in 1..Len(ocr.progress.failed) |-> ocr.progress.failed[i][1]]), rel_key) = 1
        /\ ocr.passed \o ocr.pairs = Planned

\* a file failed, and the next one, which an earlier run had recorded as
\* failed, succeeded
C28_Witness ==
    /\ ocr # <<>> /\ ocr.pc = "loop" /\ WellFormed(ocr.loaded)
    /\ ocr.failed = 1 /\ Len(ocr.passed) = 2
    /\ ocr.outcome[2] = "ok"
    /\ ocr.outcome[1] \in Keys(ocr.before.failed)
    /\ ocr.pairs # <<>>

(***************************************************************************)
(* Properties of the TokenRateLimiter (SpecLimiter, FairLimiter).          *)
(***************************************************************************)
\* the tokens recorded in the 60 seconds that end at time t
RECURSIVE RecordedWithin(_, _)
RecordedWithin(recorded, t) ==
    IF recorded = <<>> THEN 0
    ELSE (IF t - Window <= recorded[1][1] /\ recorded[1][1] <= t THEN recorded[1][2] ELSE 0)
         + RecordedWithin(Tail(recorded), t)

\* C23: with the limiter of call_gpt (tpm_limit = TPM_LIMIT), after any
\* sequence of wait_if_needed and record calls the token counts recorded
\* within any 60-second window sum to at most tpm_limit.
C23_TokenBudget ==
    (limiter # <<>> /\ limiter.tpm_limit = TPM_LIMIT) =>
        \A t \in 0..MaxClock : RecordedWithin(limiter.recorded, t) <= limiter.tpm_limit

RECURSIVE SumOf(_)
SumOf(s) == IF s = <<>> THEN 0 ELSE s[1] + SumOf(Tail(s))

\* C29: wait_if_needed called with an estimate of at most
\* MAX_TOKENS_PER_REQUEST on a limiter whose tpm_limit is at least
\* MAX_TOKENS_PER_REQUEST eventually returns, whatever the window holds,
\* having slept no longer than it takes the entries recorded before the call
\* to become older than 60 seconds; called with a larger estimate it raises
\* ValueError without waiting.
C29_WaitTerminates ==
    /\ [](limiter # <<>> =>
            /\ limiter.estimated_tokens > MAX_TOKENS_PER_REQUEST =>
                  limiter.error = "ValueError" /\ limiter.waited = <<>> /\ limiter.pc = "idle"
            /\ limiter.tpm_limit >= MAX_TOKENS_PER_REQUEST =>
                  SumOf(limiter.waited) <= Window + SleepSlack)
    /\ (limiter # <<>> /\ limiter.pc = "wait_if_needed"
            /\ limiter.tpm_limit >= MAX_TOKENS_PER_REQUEST)
          ~> (limiter.pc = "request")

\* wait_if_needed has returned after sleeping twice, once for each of two
\* entries that had to leave the window
C29_Witness ==
    /\ limiter # <<>> /\ limiter.pc = "request"
    /\ limiter.tpm_limit >= MAX_TOKENS_PER_REQUEST
    /\ Len(limiter.waited) = 2

(***************************************************************************)
(* Properties of the covered intervals and the entry records (SpecWhole).  *)
(***************************************************************************)
\* the offsets at which some entry was matched, under either strategy
MatchedOffsets ==
    {strict_found[j][1] : j \in 1..Len(strict_found)}
        \cup {loose_found[j][1] : j \in 1..Len(loose_found)}

\* C24: in an issue in which at least one entry matches, every covered
\* interval lies within the body with start <= end, the covered intervals
\* together cover exactly the offsets from the earliest match to the end of
\* the body, also when entries share a title or an offset, and the only body
\* gap Miscellany can receive is the one from the start of the body to the
\* earliest match.
C24_CoveredToBodyEnd ==
    (pc = "done" /\ MatchedOffsets # {}) =>
        /\ \A i \in 1..Len(issue.covered_intervals) :
              /\ body_offset <= issue.covered_intervals[i][1]
              /\ issue.covered_intervals[i][1] <= issue.covered_intervals[i][2]
              /\ issue.covered_intervals[i][2] <= body_end
        /\ \A o \in body_offset..body_end - 1 :
              CoveredAt(o) # {} <=> Min(MatchedOffsets) <= o
        /\ \A i \in 1..Len(issue.gaps) :
              /\ issue.gaps[i][1] = body_offset
              /\ issue.gaps[i][2] = Min(MatchedOffsets)
        /\ Len(issue.gaps) <= 1

\* an issue with front matter and ads whose TOC lists "k" and "kq": both are
\* matched at one offset, after a stretch of body that no entry covers
C24_Witness ==
    /\ pc = "done"
    /\ body_offset > 0 /\ body_end < Len(text)
    /\ Len(entries) = 2 /\ entries[1].title # entries[2].title
    /\ Len(loose_found) = 2 /\ loose_found[1][1] = loose_found[2][1]
    /\ Len(strict_found) = 2 /\ strict_found[1][1] = strict_found[2][1]
    /\ body_offset < Min(MatchedOffsets)
    /\ Len(issue.gaps) = 1
    /\ Ink(Slice(text, issue.gaps[1][1], issue.gaps[1][2])) # <<>>

\* the spans of the strategy that numbers the entries
BaseFound == IF strict_found # <<>> THEN strict_found ELSE loose_found
\* the entry records of a title, and the TOC entries of a title
RecordsOf(title) == {i \in 1..Len(issue.entries) : issue.entries[i].title = title}
ListedAs(title) == {k \in 1..Len(entries) : entries[k].title = title}
SameResult(r1, r2) ==
    /\ r1.matched = r2.matched
    /\ r1.matched =>
          /\ r1.position = r2.position
          /\ r1.length = r2.length
          /\ r1.content = r2.content

\* C25: when TOC entries share a title and the title is matched under the
\* strategy that numbers the entries, the issue record holds one entry
\* record per such TOC entry, with distinct index numbers; the strict results
\* of these records agree in position, length and content, so do their loose
\* results, and every one of the records carries the author and etype of the
\* last TOC entry of that title.
C25_DuplicateTitleRecords ==
    pc = "done" =>
        \A k \in 1..Len(entries) :
            LET title == entries[k].title
                later == entries[Max(ListedAs(title))]
            IN  (Cardinality(ListedAs(title)) >= 2 /\ OffsetsOfTitle(BaseFound, title) # {}) =>
                    /\ Cardinality(RecordsOf(title)) = Cardinality(ListedAs(title))
                    /\ \A i, j \in RecordsOf(title) :
                          /\ i # j => issue.entries[i].index # issue.entries[j].index
                          /\ SameResult(issue.entries[i].strict_match, issue.entries[j].strict_match)
                          /\ SameResult(issue.entries[i].loose_match, issue.entries[j].loose_match)
                    /\ \A i \in RecordsOf(title) :
                          /\ issue.entries[i].author = later.author
                          /\ issue.entries[i].etype = later.etype

\* the TOC lists one title twice, for different authors and types; the title
\* is matched at different offsets under the two strategies
C25_Witness ==
    /\ pc = "done"
    /\ Len(entries) = 2 /\ entries[1].title = entries[2].title
    /\ entries[1].author # entries[2].author /\ entries[1].etype # entries[2].etype
    /\ Len(issue.entries) = 2
    /\ issue.entries[1].strict_match.matched /\ issue.entries[1].loose_match.matched
    /\ issue.entries[1].strict_match.position # issue.entries[1].loose_match.position
    /\ issue.entries[1].strict_match.content # <<>>

\* C27: the misc_bytes that extract_issue reports is at most total_bytes, the
\* length of the issue text, so the coverage
\* (total_bytes - misc_bytes) / total_bytes lies between 0% and 100%.
C27_CoverageRange ==
    pc = "done" =>
        /\ 0 <= issue.misc_bytes
        /\ issue.misc_bytes <= issue.total_bytes

(***************************************************************************)
(* Properties of the file names of an issue (SpecNames).                   *)
(***************************************************************************)
\* C30: the file names that extract_issue writes into the directory of an
\* issue (entry files of both strategies, TOC.txt, ADS.txt, MISC.txt) are
\* pairwise distinct, also when titles are listed twice or sanitize to the
\* same or to an empty name: no write replaces a file written before.
C30_DistinctFileNames ==
    pc = "done" =>
        /\ \A i, j \in 1..Len(issue.written) :
              issue.written[i][1] = issue.written[j][1] => i = j
        /\ Cardinality(files) = Len(issue.written)

\* an issue with TOC.txt, ADS.txt and MISC.txt whose TOC lists "k" and "k.",
\* both sanitized to "k": both are written under loose search, as
\* 01_loose_k.txt and 02_loose_k.txt, and the first under strict search too
C30_Witness ==
    /\ pc = "done"
    /\ Len(entries) = 2 /\ entries[1].title # entries[2].title
    /\ sanitize_filename(entries[1].title, NameLen) = sanitize_filename(entries[2].title, NameLen)
    /\ {FileName(1, "loose", <<"k">>), FileName(2, "loose", <<"k">>),
        FileName(1, "strict", <<"k">>)} \subseteq WrittenNames
    /\ \A name \in {"TOC", "ADS", "MISC"} : SectionFile(name) \in WrittenNames

\* C26: in every extraction script the two parts split_front_matter returns
\* make up the issue text again, so that the symbol at body index i is the
\* symbol at index len(front_matter) + i of the issue text, and the text
\* from the position recorded for a found title begins with that title.
BeginsWithTitle(f) ==
    \A j \in 1..Len(f) :
        /\ f[j][1] + Len(f[j][2].title) <= Len(text)
        /\ \A m \in 1..Len(f[j][2].title) :
              Fold(text[f[j][1] + m]) = Fold(f[j][2].title[m])
C26_OffsetAlignment ==
    pc = "done" /\ "script" \in DOMAIN issue =>
        /\ issue.front_matter \o issue.rest = text
        /\ \A i \in 1..Len(body) : text[body_offset + i] = body[i]
        /\ BeginsWithTitle(strict_found)
        /\ BeginsWithTitle(loose_found)
====
